---- MODULE Spec2Model ----
(***************************************************************************)
(* Model of the pixel-local-storage (PLS) lowering pass                    *)
(* (RewritePixelLocalStorage.cpp).                                         *)
(*                                                                         *)
(* Spec: the orchestrator's sequence of steps over a small abstract syntax *)
(* tree, the root block (global declarations) and the body of main()       *)
(* (statements, some of them `if` blocks); once the pass has returned, one *)
(* invocation of the lowered main() is run along one of its execution      *)
(* paths.                                                                  *)
(* SpecPack: the statements the pass emits for a store followed by a load  *)
(* of a 4x8-bit format, executed on concrete channel values.               *)
(* SpecFetch: the main() lowered for framebuffer fetch (preload, store and *)
(* load, flush) executed on concrete component values.                     *)
(*                                                                         *)
(* Model of the worker pools (WorkerThread.cpp).                           *)
(* SpecPool: a client thread posts tasks to a pool and may destroy it, the *)
(* pool's threads run the tasks and mark their events ready, other threads *)
(* wait on the events; mutexes and condition variables are explicit.       *)
(* FairSpecPool: SpecPool under fair scheduling of every thread.           *)
(* SpecCreate: WorkerThreadPool::Create for every build configuration,     *)
(* platform and thread count, and the use of a SingleThreadedWorkerPool.   *)
(* SpecQueue: postWorkerTask called by several threads at once and         *)
(* threadLoop, every lock and queue access a step of its own.              *)
(* SpecOwner: SpecQueue with tasks posted through PostWorkerTask and the   *)
(* shared references to the events and the pool released in any order.     *)
(***************************************************************************)
EXTENDS Integers, Sequences, FiniteSets, TLC

\* ------------------------------------------------------------------ bounds
\* Highest PLS binding index a shader of the model declares (0..MaxBinding).
MaxBinding == 1
\* Largest number of statements in the body of main() before lowering.
MaxStmts == 2
\* compiler->getResources().MaxCombinedDrawBuffersAndPixelLocalStoragePlanes
MaxCombinedDrawBuffersAndPixelLocalStoragePlanes == 2
\* AsyncWorkerPool(numThreads): the number of worker threads of the pool.
NumThreads == 2
\* Largest number of tasks the client posts to the pool.
MaxTasks == 2
\* Number of threads that wait on the events of the tasks.
NumWaiters == 2
\* Number of calls of postWorkerTask made concurrently.
MaxPosts == 3

\* ------------------------------------------------------- enumerations
Bindings == 0 .. MaxBinding

\* TLayoutImageInternalFormat values a PLS declaration can carry.
Formats == <<"EiifRGBA8", "EiifRGBA8I", "EiifRGBA8UI", "EiifR32F", "EiifR32UI">>
FormatSet == {Formats[i] : i \in 1 .. Len(Formats)}

\* ShPixelLocalStorageType
PLSTypes == {"ImageStoreR32PackedFormats", "ImageStoreNativeFormats", "FramebufferFetch"}
ImagePLSTypes == {"ImageStoreR32PackedFormats", "ImageStoreNativeFormats"}

\* ShFragmentSynchronizationType
SyncTypes == {"NotSupported", "FragmentShaderInterlock_NV_GL",
              "FragmentShaderOrdering_INTEL_GL", "FragmentShaderInterlock_ARB_GL",
              "RasterizerOrderViews_D3D"}

\* Block identities (the parent of an insertion).  The body of an `if`
\* statement is identified by the id of the `if` node.
RootId == 0
MainId == 1

\* ------------------------------------------------------------ tree nodes
\* An expression node.  id is the node's identity (0 for nodes the pass
\* creates), b the binding (PLS operations) or the variable id (symbols),
\* aux the conversion wrapped around the operation by the pass.
Expr(id, op, b, aux) == [id |-> id, op |-> op, b |-> b, aux |-> aux]
NoExpr == Expr(0, "none", -1, "")

\* A statement or declaration node.  All nodes have the same fields:
\*   b    binding of the PLS variable the node is about, or -1
\*   fmt  internal format (declarations), loc  output location (declarations)
\*   var  the variable the node declares or assigns (0 when irrelevant); the
\*        temporary hoisted out of a store is identified by the store's id
\*   val  the expression operand, body  the statements of an `if` block.
Node(id, op, b, fmt, loc, var, val, body) ==
    [id |-> id, op |-> op, b |-> b, fmt |-> fmt, loc |-> loc, var |-> var,
     val |-> val, body |-> body]

Stmt(id, op, b, val) == Node(id, op, b, "", -1, 0, val, <<>>)
NewStmt(op, b, var, val) == Node(0, op, b, "", -1, var, val, <<>>)
Decl(id, op, b, fmt, loc, var) == Node(id, op, b, fmt, loc, var, NoExpr, <<>>)
NoNode == Stmt(0, "none", -1, NoExpr)

\* The fragment output variable of the shader (at most one in the model).
OutId == 9
\* The variable that replaces it when its location is made explicit.
OutWithLocationId == 8

\* ------------------------------------------------------- input programs
RECURSIVE InjSeqs(_)
\* Every sequence without repetition over a subset of S.
InjSeqs(S) == {<<>>} \cup UNION {{<<x>> \o s : s \in InjSeqs(S \ {x})} : x \in S}

Range(s) == {s[i] : i \in DOMAIN s}

\* The format of the PLS uniform declared on binding b in the shader whose
\* format assignment is fmtShift.
PLSFormatOf(shift, b) == Formats[((b + shift) % Len(Formats)) + 1]

\* Precision the shader declares the PLS uniform with.
PLSPrecisionOf(fmt) ==
    CASE fmt = "EiifRGBA8" -> "EbpLow"
      [] fmt \in {"EiifRGBA8I", "EiifRGBA8UI"} -> "EbpMedium"
      [] OTHER -> "EbpHigh"

\* Statements of main() before lowering.  The statement at position j of
\* main has id 100*j, its operand id+1; statement k of an `if` body has id
\* 100*j + 10*k.
StoreConst(id, b) == Stmt(id, "pixelLocalStoreANGLE", b, Expr(id + 1, "const", -1, ""))
StoreLoad(id, b, b2) ==
    Stmt(id, "pixelLocalStoreANGLE", b, Expr(id + 1, "pixelLocalLoadANGLE", b2, ""))
StoreSym(id, b) == Stmt(id, "pixelLocalStoreANGLE", b, Expr(id + 1, "symbol", OutId, ""))
InitLoad(id, b) == Stmt(id, "init", -1, Expr(id + 1, "pixelLocalLoadANGLE", b, ""))
InitSym(id) == Stmt(id, "init", -1, Expr(id + 1, "symbol", OutId, ""))
Return(id) == Stmt(id, "return", -1, NoExpr)
If(id, body) == Node(id, "if", -1, "", -1, 0, NoExpr, body)

\* Statements that can stand at position j of main, for the PLS
\* declarations pls (in declaration order): stores go to the binding declared
\* first, the loads nested in a store read any declared binding.  A shader
\* with a fragment output (hasOut) reads that output instead.
MainStmts(j, pls, hasOut) ==
    LET id == 100 * j
    IN IF hasOut
       THEN {InitSym(id)} \cup (IF pls = <<>> THEN {} ELSE {StoreSym(id, pls[1])})
       ELSE (IF pls = <<>> THEN {}
             ELSE {InitLoad(id, pls[1]), If(id, <<StoreConst(id + 10, pls[1])>>)}
                    \cup {StoreLoad(id, pls[1], b2) : b2 \in Range(pls)})
              \cup {Return(id), If(id, <<Return(id + 10)>>)}

RECURSIVE MainBodies(_, _, _)
\* Bodies of main with n statements.
MainBodies(n, pls, hasOut) ==
    IF n = 0 THEN {<<>>}
    ELSE {Append(body, s) : body \in MainBodies(n - 1, pls, hasOut),
                            s \in MainStmts(n, pls, hasOut)}

\* Declarations of fragment outputs: qualifier EvqFragmentOut ("outDecl") or
\* EvqFragmentInOut ("inoutDecl"); "globalDecl" declares a variable with
\* another qualifier.
OutputDeclOps == {"outDecl", "inoutDecl"}
GlobalDeclOps == OutputDeclOps \cup {"globalDecl"}

\* The root block: the PLS declarations, in the order pls, then the global
\* variable the statements of main() refer to (declared by outOp).
RootOf(pls, shift, outLoc, outOp) ==
    [i \in 1 .. Len(pls) |->
        Decl(i, "plsDecl", pls[i], PLSFormatOf(shift, pls[i]), -1, 0)]
      \o (IF outLoc = -2 THEN <<>> ELSE <<Decl(OutId, outOp, -1, "", outLoc, OutId)>>)

\* ---------------------------------------------------------------- state
VARIABLES
    root,            \* the root block: global declarations (main() follows them)
    mainBody,        \* the body of main()
    shader,          \* the shader compiled: [pls, fmtShift, outLoc, outOp] as written
    compileOptions,  \* [plsType, fragmentSynchronizationType, passHighpToPackUnormSnormBuiltins]
    tr,              \* the traverser object (registries, queues, pixel coordinate)
    pc,              \* the statement of RewritePixelLocalStorage to execute next
    cursor,          \* number of children of the traversed block already visited
    earlyFragmentTests, \* compiler->specifyEarlyFragmentTests() was called
    stage,           \* the last step of the pass that changed the tree
    result,          \* the value RewritePixelLocalStorage returned ("none" before)
    failed,          \* the step of the pass that reported failure ("none" if none)
    trace,           \* events of one invocation of the lowered main()
    px,              \* one pixel's store and load executed on concrete values
    registry,        \* a PLSBackingStoreMap used on its own: [mMap, log, asserted]
    pool,            \* the class of the pool WorkerThreadPool::Create returned
    mTerminated,     \* AsyncWorkerPool::mTerminated
    mMutex,          \* the thread that owns AsyncWorkerPool::mMutex
    mTaskQueue,      \* AsyncWorkerPool::mTaskQueue (tasks in posting order)
    mThreads,        \* per worker thread: its position in threadLoop and its task
    tasks,           \* per task: how far the task has got
    waitables,       \* per task, its AsyncWaitableEvent: [mMutex, mIsReady]
    client,          \* the position of the thread that posts tasks and destroys the pool
    waiters,         \* per waiting thread: [pc, event, slept] (slept: it has blocked)
    observed,        \* the events for which isReady() has returned true
    create,          \* a call of WorkerThreadPool::Create: its inputs and position
    posters,         \* per concurrent call of postWorkerTask: its position
    history,         \* what the threads did to the queue and the tasks, in order
    owners           \* the holders of shared references to the pool and the events

passVars == <<root, mainBody, shader, compileOptions, tr, pc, cursor,
              earlyFragmentTests, stage, result, failed, trace>>

\* The variables the steps of the pass leave alone.
poolVars == <<pool, mTerminated, mMutex, mTaskQueue, mThreads, tasks, waitables,
              client, waiters, observed, create, posters, history, owners>>

\* The variables no step of a pool changes once the pool exists.
hostVars == <<passVars, px, registry, create, posters, history, owners>>

auxVars == <<px, registry, poolVars>>

vars == <<passVars, auxVars>>

\* ------------------------------------------------------- worker pool state
\* Threads that hold a mutex while they are about to block: the workers of
\* an AsyncWorkerPool and the threads that wait on events.
Worker(i) == <<"worker", i>>
Waiter(u) == <<"waiter", u>>
\* The owner of a mutex no thread has locked.
Unlocked == <<"unlocked", 0>>

WorkerIds == 1 .. NumThreads
TaskIds == 1 .. MaxTasks
WaiterIds == 1 .. NumWaiters
PostIds == 1 .. MaxPosts
\* The thread making call c of postWorkerTask.
Poster(c) == <<"poster", c>>

\* Nothing has touched the queue: the tasks in the order they were pushed
\* and popped, per task the workers that popped it, ran its closure and
\* marked its event ready, whether the closure had returned by then, and
\* whether a thread touched mTaskQueue without owning mMutex.
NoHistory ==
    [enqueued |-> <<>>, dequeued |-> <<>>,
     poppedBy |-> [c \in PostIds |-> <<>>],
     ranBy |-> [c \in PostIds |-> <<>>],
     readyBy |-> [c \in PostIds |-> <<>>],
     readyEarly |-> FALSE,
     unguarded |-> FALSE]

\* Holders of shared references other than threads: the entry of a task in
\* mTaskQueue (of its event), the event of call c (of the pool), the code
\* that created the pool.
Queue == <<"queue", 0>>
Waitable(c) == <<"event", c>>
Client == <<"client", 0>>

\* ~AsyncWorkerPool has not been entered.  (owners.late: a posting thread
\* dropped a reference when its task was no longer queued or running.)
NoDestructor == [pc |-> "none", thread |-> <<"none", 0>>]

\* The pool is held by the code that created it and tasks are posted with
\* pool->postWorkerTask: per call, the holders of its event.
NoOwners ==
    [via |-> "postWorkerTask", pool |-> {Client}, event |-> [c \in PostIds |-> {}],
     destructor |-> NoDestructor, late |-> FALSE]

\* No call of WorkerThreadPool::Create is being followed.
NoCreate == [pc |-> "none"]

\* The pool after construction: the worker threads of an AsyncWorkerPool
\* stand at the start of threadLoop (a DelegateWorkerPool has none), nothing
\* has been posted.
Constructed(poolClass) ==
    /\ pool = poolClass
    /\ mTerminated = FALSE
    /\ mMutex = Unlocked
    /\ mTaskQueue = <<>>
    /\ mThreads = [i \in WorkerIds |->
                      [pc |-> IF poolClass = "AsyncWorkerPool" THEN "lock" ELSE "absent",
                       task |-> 0]]
    /\ tasks = [t \in TaskIds |-> "unposted"]
    /\ waitables = [t \in TaskIds |-> [mMutex |-> Unlocked, mIsReady |-> FALSE]]
    /\ client = "idle"
    /\ waiters = [u \in WaiterIds |-> [pc |-> "idle", event |-> 0, slept |-> FALSE]]
    /\ observed = {}
    /\ posters = [c \in PostIds |-> "idle"]
    /\ history = NoHistory
    /\ owners = NoOwners

\* ------------------------------------------- TIntermTraverser utilities
\* The traverser after construction.
NewTraverser ==
    [mImages |-> <<>>, mPLSAttachments |-> <<>>, mGlobalPixelCoord |-> FALSE,
     mRewrittenOutputs |-> <<>>, mInsertions |-> <<>>, mReplacements |-> <<>>,
     assertFailed |-> FALSE]

\* insertStatementsInParentBlock: queue statements to insert before and after
\* the statement at position pos of block blk.
insertStatementsInParentBlock(t, blk, pos, before, after) ==
    [t EXCEPT !.mInsertions =
        Append(@, [parent |-> blk, position |-> pos, before |-> before, after |-> after])]

insertStatementInParentBlock(t, blk, pos, stmt) ==
    insertStatementsInParentBlock(t, blk, pos, <<stmt>>, <<>>)

\* queueReplacement(replacement, OriginalNode::IS_DROPPED) for the node being
\* visited: a statement or declaration (node) or an expression (expr).
queueReplacement(t, original, node, expr) ==
    [t EXCEPT !.mReplacements =
        Append(@, [original |-> original, node |-> node, expr |-> expr])]

\* ------------------------------------------------- PLSBackingStoreMap
HasEntry(map, binding) == binding \in DOMAIN map

\* An insertion that assigns over an existing entry.
MapInsert_Overwrite(map, binding, store) ==
    [k \in DOMAIN map \cup {binding} |-> IF k = binding THEN store ELSE map[k]]

\* std::map::insert keeps an existing entry; ASSERT(result.second).
MapInsert(map, binding, store) ==
    IF HasEntry(map, binding) THEN map
    ELSE [k \in DOMAIN map \cup {binding} |-> IF k = binding THEN store ELSE map[k]]

\* bindingOrderedMap(): the bindings in ascending order.
RECURSIVE bindingOrderedMap(_)
bindingOrderedMap(map) ==
    IF DOMAIN map = {} THEN <<>>
    ELSE LET lo == CHOOSE k \in DOMAIN map : \A j \in DOMAIN map : k <= j
         IN <<lo>> \o bindingOrderedMap([k \in DOMAIN map \ {lo} |-> map[k]])

\* ------------------------------------------------- RewritePLSTraverser
needsR32Packing(opts) == opts.plsType = "ImageStoreR32PackedFormats"

\* A coordinate variable declared at every call.
ensureGlobalPixelCoordDeclared_EveryTime(t, blk, pos) ==
    insertStatementInParentBlock([t EXCEPT !.mGlobalPixelCoord = TRUE], blk, pos,
                                 Decl(0, "pixelCoordDecl", -1, "", -1, 0))

\* ensureGlobalPixelCoordDeclared, called while visiting position pos of blk.
ensureGlobalPixelCoordDeclared(t, blk, pos) ==
    IF ~t.mGlobalPixelCoord
    THEN insertStatementInParentBlock([t EXCEPT !.mGlobalPixelCoord = TRUE], blk, pos,
                                      Decl(0, "pixelCoordDecl", -1, "", -1, 0))
    ELSE t

\* ----------------------------------------- RewritePLSToImagesTraverser
\* createPLSImageReplacement remapping the 4x8-bit formats whether or not
\* R32 packing is required.
createPLSImageReplacement_AlwaysRemap(plsSymbol, opts) ==
    LET f == plsSymbol.fmt
        p == PLSPrecisionOf(f)
        fmtPrecBasic ==
            CASE f = "EiifRGBA8" -> <<"EiifR32UI", "EbpHigh", "EbtUImage2D">>
              [] f = "EiifRGBA8I" -> <<"EiifR32I", "EbpHigh", "EbtIImage2D">>
              [] f = "EiifRGBA8UI" -> <<"EiifR32UI", "EbpHigh", "EbtUImage2D">>
              [] f = "EiifR32F" -> <<f, p, "EbtImage2D">>
              [] f = "EiifR32UI" -> <<f, p, "EbtUImage2D">>
    IN [binding |-> plsSymbol.b,
        imageInternalFormat |-> fmtPrecBasic[1],
        precision |-> fmtPrecBasic[2],
        basicType |-> fmtPrecBasic[3],
        rasterOrdered |-> (opts.fragmentSynchronizationType = "RasterizerOrderViews_D3D"),
        coherent |-> TRUE, restrictQualifier |-> TRUE, volatileQualifier |-> FALSE,
        readonly |-> FALSE, writeonly |-> FALSE]

\* createPLSImageReplacement: the image2D variable replacing a PLS handle.
createPLSImageReplacement(plsSymbol, opts) ==
    LET packed == needsR32Packing(opts)
        f == plsSymbol.fmt
        p == PLSPrecisionOf(f)
        fmtPrecBasic ==
            CASE f = "EiifRGBA8" ->
                    IF packed THEN <<"EiifR32UI", "EbpHigh", "EbtUImage2D">>
                    ELSE <<f, p, "EbtImage2D">>
              [] f = "EiifRGBA8I" ->
                    IF packed THEN <<"EiifR32I", "EbpHigh", "EbtIImage2D">>
                    ELSE <<f, p, "EbtIImage2D">>
              [] f = "EiifRGBA8UI" ->
                    IF packed THEN <<"EiifR32UI", "EbpHigh", "EbtUImage2D">>
                    ELSE <<f, p, "EbtUImage2D">>
              [] f = "EiifR32F" -> <<f, p, "EbtImage2D">>
              [] f = "EiifR32UI" -> <<f, p, "EbtUImage2D">>
    IN [binding |-> plsSymbol.b,
        imageInternalFormat |-> fmtPrecBasic[1],
        precision |-> fmtPrecBasic[2],
        basicType |-> fmtPrecBasic[3],
        rasterOrdered |-> (opts.fragmentSynchronizationType = "RasterizerOrderViews_D3D"),
        coherent |-> TRUE, restrictQualifier |-> TRUE, volatileQualifier |-> FALSE,
        readonly |-> FALSE, writeonly |-> FALSE]

\* RewritePLSToImagesTraverser::visitPLSDeclaration
ImagesVisitPLSDeclaration(t, plsSymbol, blk, pos, opts) ==
    LET t1 == ensureGlobalPixelCoordDeclared(t, blk, pos)
        image2D == createPLSImageReplacement(plsSymbol, opts)
        t2 == [t1 EXCEPT !.mImages = MapInsert(@, plsSymbol.b, image2D),
                         !.assertFailed = @ \/ HasEntry(t1.mImages, plsSymbol.b)]
    IN queueReplacement(t2, plsSymbol.id,
                        Decl(0, "imageDecl", plsSymbol.b, image2D.imageInternalFormat, -1, 0),
                        NoExpr)

\* unpackImageDataIfNecessary: the conversion applied to the imageLoad result.
unpackImageDataIfNecessary(plsFormat, imageFormat) ==
    IF plsFormat = imageFormat THEN ""
    ELSE CASE plsFormat = "EiifRGBA8" -> "unpackUnorm4x8"
           [] plsFormat \in {"EiifRGBA8I", "EiifRGBA8UI"} -> "shiftLeftRight"
           [] OTHER -> "UNREACHABLE"

\* RewritePLSToImagesTraverser::visitPLSLoad, for the load expression e.
ImagesVisitPLSLoad(t, e, shift) ==
    IF ~HasEntry(t.mImages, e.b) THEN [t EXCEPT !.assertFailed = TRUE]
    ELSE LET image2D == t.mImages[e.b]
             unpack == unpackImageDataIfNecessary(PLSFormatOf(shift, e.b),
                                                  image2D.imageInternalFormat)
         IN queueReplacement([t EXCEPT !.assertFailed = @ \/ ~t.mGlobalPixelCoord],
                             e.id, NoNode, Expr(0, "imageLoad", e.b, unpack))

\* clampAndPackPLSDataIfNecessary for the hoisted value plsVar of a store to
\* binding b: the traverser with the clamp / mask / workaround statements
\* queued, and the expression handed to imageStore.
clampAndPackPLSDataIfNecessary(t, plsVar, b, plsFormat, image2D, blk, pos, opts) ==
    LET t1 == CASE plsFormat = "EiifRGBA8I" ->
                     insertStatementInParentBlock(t, blk, pos,
                         NewStmt("clampAssign", b, plsVar, NoExpr))
                [] plsFormat = "EiifRGBA8UI" ->
                     insertStatementInParentBlock(t, blk, pos,
                         NewStmt("minAssign", b, plsVar, NoExpr))
                [] OTHER -> t
        imageFormat == image2D.imageInternalFormat
    IN IF plsFormat = imageFormat
       THEN [t |-> t1, packedData |-> Expr(0, "plsVar", b, "")]
       ELSE CASE plsFormat = "EiifRGBA8" ->
                   IF opts.passHighpToPackUnormSnormBuiltins
                   THEN [t |-> insertStatementInParentBlock(t1, blk, pos,
                                   NewStmt("workaroundHighpDecl", b, plsVar, NoExpr)),
                         packedData |-> Expr(0, "workaroundHighpVar", b, "packUnorm4x8")]
                   ELSE [t |-> t1, packedData |-> Expr(0, "plsVar", b, "packUnorm4x8")]
              [] plsFormat = "EiifRGBA8I" ->
                   [t |-> insertStatementInParentBlock(t1, blk, pos,
                             NewStmt("maskAssign", b, plsVar, NoExpr)),
                    packedData |-> Expr(0, "plsVar", b, "orShifted")]
              [] plsFormat = "EiifRGBA8UI" ->
                   [t |-> t1, packedData |-> Expr(0, "plsVar", b, "orShifted")]
              [] OTHER -> [t |-> [t1 EXCEPT !.assertFailed = TRUE],
                           packedData |-> Expr(0, "plsVar", b, "UNREACHABLE")]

\* visitPLSStore queuing its barriers before the clamp and pack statements.
ImagesVisitPLSStore_BarriersFirst(t, s, blk, pos, opts, shift) ==
    IF ~HasEntry(t.mImages, s.b) THEN [t EXCEPT !.assertFailed = TRUE]
    ELSE LET image2D == t.mImages[s.b]
             t1 == insertStatementsInParentBlock(t, blk, pos,
                       <<NewStmt("memoryBarrierImage", s.b, s.id, NoExpr)>>,
                       <<NewStmt("memoryBarrierImage", s.b, s.id, NoExpr)>>)
             packed == clampAndPackPLSDataIfNecessary(t1, s.id, s.b, PLSFormatOf(shift, s.b),
                                                      image2D, blk, pos, opts)
         IN queueReplacement(packed.t, s.id,
                             NewStmt("imageStore", s.b, s.id, packed.packedData), NoExpr)

\* RewritePLSToImagesTraverser::visitPLSStore for the store statement s whose
\* value was hoisted into the temporary identified by s.id.
ImagesVisitPLSStore(t, s, blk, pos, opts, shift) ==
    IF ~HasEntry(t.mImages, s.b) THEN [t EXCEPT !.assertFailed = TRUE]
    ELSE LET image2D == t.mImages[s.b]
             packed == clampAndPackPLSDataIfNecessary(t, s.id, s.b, PLSFormatOf(shift, s.b),
                                                      image2D, blk, pos, opts)
             t1 == insertStatementsInParentBlock(packed.t, blk, pos,
                       <<NewStmt("memoryBarrierImage", s.b, s.id, NoExpr)>>,
                       <<NewStmt("memoryBarrierImage", s.b, s.id, NoExpr)>>)
         IN queueReplacement([t1 EXCEPT !.assertFailed = @ \/ ~t1.mGlobalPixelCoord],
                             s.id, NewStmt("imageStore", s.b, s.id, packed.packedData),
                             NoExpr)

\* ------------------------------- RewritePLSToFramebufferFetchTraverser
\* PLSAttachment binding the attachments from the front.
PLSAttachment_FromFront(plsVar, opts) ==
    [binding |-> plsVar.b,
     accessBasicType |-> "EbtFloat", accessNominalSize |-> 4,
     fragmentBasicType |-> "EbtFloat", fragmentNominalSize |-> 4,
     precision |-> PLSPrecisionOf(plsVar.fmt),
     location |-> plsVar.b,
     locationsSpecified |-> 1,
     noncoherent |-> (opts.fragmentSynchronizationType = "NotSupported")]

\* PLSAttachment::PLSAttachment: the attachment pair of a PLS variable.
PLSAttachment(plsVar, opts) ==
    LET f == plsVar.fmt
        access == CASE f = "EiifRGBA8I" -> <<"EbtInt", 4>>
                    [] f = "EiifRGBA8UI" -> <<"EbtUInt", 4>>
                    [] f = "EiifR32F" -> <<"EbtFloat", 1>>
                    [] f = "EiifR32UI" -> <<"EbtUInt", 1>>
                    [] OTHER -> <<"EbtFloat", 4>>
    IN [binding |-> plsVar.b,
        accessBasicType |-> access[1], accessNominalSize |-> access[2],
        fragmentBasicType |-> access[1], fragmentNominalSize |-> 4,
        precision |-> PLSPrecisionOf(f),
        location |-> MaxCombinedDrawBuffersAndPixelLocalStoragePlanes - plsVar.b - 1,
        locationsSpecified |-> 1,
        noncoherent |-> (opts.fragmentSynchronizationType = "NotSupported")]

\* expandAccessVar returning the scratch variable as it is.
expandAccessVar_Unexpanded(attachment) ==
    Expr(0, "expandAccessVar", attachment.binding, "")

\* PLSAttachment::expandAccessVar
expandAccessVar(attachment) ==
    Expr(0, "expandAccessVar", attachment.binding,
         IF attachment.accessNominalSize = 1 THEN "expand(r,0,0,1)" ELSE "")

\* PLSAttachment::swizzle of a variable with size components.
swizzle(attachment, size) ==
    IF size # attachment.accessNominalSize THEN "swizzle" ELSE ""

\* RewritePLSToFramebufferFetchTraverser::visitPLSDeclaration
FetchVisitPLSDeclaration(t, plsSymbol, blk, pos, opts) ==
    LET attachment == PLSAttachment(plsSymbol, opts)
        t1 == [t EXCEPT !.mPLSAttachments = MapInsert(@, plsSymbol.b, attachment),
                        !.assertFailed = @ \/ HasEntry(t.mPLSAttachments, plsSymbol.b)]
        t2 == insertStatementInParentBlock(t1, blk, pos,
                  Decl(0, "fragmentVarDecl", plsSymbol.b, plsSymbol.fmt, attachment.location, 0))
    IN queueReplacement(t2, plsSymbol.id,
                        Decl(0, "accessVarDecl", plsSymbol.b, plsSymbol.fmt, -1, 0), NoExpr)

\* RewritePLSToFramebufferFetchTraverser::visitPLSLoad
FetchVisitPLSLoad(t, e) ==
    IF ~HasEntry(t.mPLSAttachments, e.b) THEN [t EXCEPT !.assertFailed = TRUE]
    ELSE queueReplacement(t, e.id, NoNode, expandAccessVar(t.mPLSAttachments[e.b]))

\* RewritePLSToFramebufferFetchTraverser::visitPLSStore
FetchVisitPLSStore(t, s) ==
    IF ~HasEntry(t.mPLSAttachments, s.b) THEN [t EXCEPT !.assertFailed = TRUE]
    ELSE queueReplacement(t, s.id,
             NewStmt("assignAccessVar", s.b, s.id,
                     Expr(0, "plsVar", s.b, swizzle(t.mPLSAttachments[s.b], 4))),
             NoExpr)

\* RewritePLSToFramebufferFetchTraverser::visitSymbol
FetchVisitSymbol(t, e) ==
    IF e.b \in DOMAIN t.mRewrittenOutputs
    THEN queueReplacement(t, e.id, NoNode, Expr(0, "symbol", t.mRewrittenOutputs[e.b], ""))
    ELSE t

\* visitDeclaration giving location 0 to every declaration without location,
\* whatever its qualifier.
FetchVisitDeclaration_AnyQualifier(t, decl) ==
    IF decl.loc < 0
    THEN LET t1 == queueReplacement(t, decl.id,
                       Decl(0, decl.op, -1, "", 0, OutWithLocationId), NoExpr)
         IN [t1 EXCEPT !.mRewrittenOutputs =
                MapInsert(@, decl.var, OutWithLocationId)]
    ELSE t

\* RewritePLSToFramebufferFetchTraverser::visitDeclaration for a declaration
\* that is not PLS: a fragment output without location gets location 0.
FetchVisitDeclaration(t, decl) ==
    IF decl.op \in OutputDeclOps /\ decl.loc < 0
    THEN LET t1 == queueReplacement(t, decl.id,
                       Decl(0, decl.op, -1, "", 0, OutWithLocationId), NoExpr)
         IN [t1 EXCEPT !.mRewrittenOutputs =
                MapInsert(@, decl.var, OutWithLocationId)]
    ELSE t

\* ------------------------------------------------ traversal dispatch
IsImages(opts) == opts.plsType \in ImagePLSTypes

\* visitPLSDeclaration / visitPLSLoad / visitPLSStore / visitSymbol of the
\* traverser RewritePixelLocalStorage constructed.
visitPLSDeclaration(t, plsSymbol, blk, pos, opts) ==
    IF IsImages(opts) THEN ImagesVisitPLSDeclaration(t, plsSymbol, blk, pos, opts)
    ELSE FetchVisitPLSDeclaration(t, plsSymbol, blk, pos, opts)

visitPLSLoad(t, e, opts, shift) ==
    IF IsImages(opts) THEN ImagesVisitPLSLoad(t, e, shift) ELSE FetchVisitPLSLoad(t, e)

visitPLSStore(t, s, blk, pos, opts, shift) ==
    IF IsImages(opts) THEN ImagesVisitPLSStore(t, s, blk, pos, opts, shift)
    ELSE FetchVisitPLSStore(t, s)

visitSymbol(t, e, opts) ==
    IF IsImages(opts) THEN t ELSE FetchVisitSymbol(t, e)

\* RewritePLSTraverser::visitDeclaration (and its override) for a global
\* declaration at position pos of the root block.
visitDeclaration(t, decl, pos, opts) ==
    IF decl.op = "plsDecl" THEN visitPLSDeclaration(t, decl, RootId, pos, opts)
    ELSE IF IsImages(opts) THEN t
    ELSE FetchVisitDeclaration(t, decl)

\* Traversal of an expression: visitAggregate for pixelLocalLoadANGLE,
\* visitSymbol for symbols.
traverseExpr(t, e, opts, shift) ==
    CASE e.op = "pixelLocalLoadANGLE" -> visitPLSLoad(t, e, opts, shift)
      [] e.op = "symbol" -> visitSymbol(t, e, opts)
      [] OTHER -> t

\* The declaration "T valueVar = <value>" visitAggregate hoists out of store s.
valueDecl(s) == NewStmt("valueDecl", s.b, s.id, s.val)

\* visitAggregate without "valueDecl->traverse(this)".
visitAggregate_NoRetraverse(t, s, blk, pos, opts, shift) ==
    visitPLSStore(insertStatementInParentBlock(t, blk, pos, valueDecl(s)),
                  s, blk, pos, opts, shift)

\* visitAggregate hoisting the value after the store hook has run.
visitAggregate_HoistAfterStore(t, s, blk, pos, opts, shift) ==
    LET t1 == traverseExpr(t, s.val, opts, shift)
        t2 == visitPLSStore(t1, s, blk, pos, opts, shift)
    IN insertStatementInParentBlock(t2, blk, pos, valueDecl(s))

\* RewritePLSTraverser::visitAggregate for pixelLocalStoreANGLE: hoist the
\* value into a temporary, rewrite the loads inside it, then lower the store.
visitAggregate(t, s, blk, pos, opts, shift) ==
    LET t1 == traverseExpr(t, s.val, opts, shift)
        t2 == insertStatementInParentBlock(t1, blk, pos, valueDecl(s))
    IN visitPLSStore(t2, s, blk, pos, opts, shift)

\* Traversal of a statement without nested block at position pos of blk.
traverseSimple(t, s, blk, pos, opts, shift) ==
    CASE s.op = "pixelLocalStoreANGLE" -> visitAggregate(t, s, blk, pos, opts, shift)
      [] s.op = "init" -> traverseExpr(t, s.val, opts, shift)
      [] OTHER -> t

RECURSIVE traverseBlock(_, _, _, _, _, _)
\* Traversal of the statements body[pos..] of block blk, in order.
traverseBlock(t, body, blk, pos, opts, shift) ==
    IF pos > Len(body) THEN t
    ELSE traverseBlock(traverseSimple(t, body[pos], blk, pos, opts, shift),
                       body, blk, pos + 1, opts, shift)

\* Traversal of the statement at position pos of main().
traverseStatement(t, s, pos, opts, shift) ==
    IF s.op = "if" THEN traverseBlock(t, s.body, s.id, 1, opts, shift)
    ELSE traverseSimple(t, s, MainId, pos, opts, shift)

\* ------------------------------------------ TIntermTraverser::updateTree
\* CompareInsertion: by parent, then by position.
CompareInsertion(a, b) ==
    IF a.parent # b.parent THEN a.parent < b.parent ELSE a.position < b.position

RECURSIVE StableSort(_)
\* std::stable_sort(mInsertions, CompareInsertion): an entry goes after
\* every entry that was queued before it and does not compare greater.
StableSort(q) ==
    IF Len(q) <= 1 THEN q
    ELSE LET e == q[Len(q)]
             sorted == StableSort(SubSeq(q, 1, Len(q) - 1))
             keep == {i \in 1 .. Len(sorted) : ~CompareInsertion(e, sorted[i])}
             n == IF keep = {} THEN 0 ELSE CHOOSE i \in keep : \A j \in keep : j <= i
         IN SubSeq(sorted, 1, n) \o <<e>> \o SubSeq(sorted, n + 1, Len(sorted))

\* TIntermBlock::insertChildNodes(position, insertions), positions from 1.
insertChildNodes(seq, position, insertions) ==
    SubSeq(seq, 1, position - 1) \o insertions \o SubSeq(seq, position, Len(seq))

\* One entry of mInsertions applied to a block: insertionsAfter at
\* position + 1, then insertionsBefore at position.
InsertInBlock(seq, e) ==
    insertChildNodes(insertChildNodes(seq, e.position + 1, e.after), e.position, e.before)

\* One entry applied to the tree [root, main].
ApplyInsertion(tree, e) ==
    CASE e.parent = RootId -> [tree EXCEPT !.root = InsertInBlock(@, e)]
      [] e.parent = MainId -> [tree EXCEPT !.main = InsertInBlock(@, e)]
      [] OTHER ->
           [tree EXCEPT !.main =
               [i \in 1 .. Len(@) |->
                   IF @[i].id = e.parent THEN [@[i] EXCEPT !.body = InsertInBlock(@, e)]
                   ELSE @[i]]]

RECURSIVE ApplyInsertions(_, _, _)
\* The sorted entries q[1..n] applied from the last to the first.
ApplyInsertions(tree, q, n) ==
    IF n = 0 THEN tree ELSE ApplyInsertions(ApplyInsertion(tree, q[n]), q, n - 1)

\* parent->replaceChildNode(original, replacement) on one node: the node
\* itself, its operand, or a statement of its body.
ReplaceSimple(n, r) ==
    IF n.id = r.original /\ r.node # NoNode THEN r.node
    ELSE IF n.val.id = r.original /\ r.expr # NoExpr THEN [n EXCEPT !.val = r.expr]
    ELSE n

ReplaceInNode(n, r) ==
    LET m == ReplaceSimple(n, r)
    IN [m EXCEPT !.body = [k \in 1 .. Len(@) |-> ReplaceSimple(@[k], r)]]

ApplyReplacement(tree, r) ==
    [root |-> [i \in 1 .. Len(tree.root) |-> ReplaceInNode(tree.root[i], r)],
     main |-> [i \in 1 .. Len(tree.main) |-> ReplaceInNode(tree.main[i], r)]]

RECURSIVE ApplyReplacements(_, _, _)
\* The entries q[i..] of mReplacements applied in the order they were queued.
ApplyReplacements(tree, q, i) ==
    IF i > Len(q) THEN tree ELSE ApplyReplacements(ApplyReplacement(tree, q[i]), q, i + 1)

\* updateTree: the insertions, then the replacements.
updateTree(t, tree) ==
    LET sorted == StableSort(t.mInsertions)
    IN ApplyReplacements(ApplyInsertions(tree, sorted, Len(sorted)), t.mReplacements, 1)

\* --------------------------------------- injectSetupCode / injectFinalizeCode
Call(name) == NewStmt(name, -1, 0, NoExpr)

\* RewritePLSToImagesTraverser::injectSetupCode: the statements inserted.
ImagesSetupCode(opts) ==
    CASE opts.fragmentSynchronizationType \in {"RasterizerOrderViews_D3D", "NotSupported"} ->
            <<>>
      [] opts.fragmentSynchronizationType = "FragmentShaderInterlock_NV_GL" ->
            <<Call("beginInvocationInterlockNV")>>
      [] opts.fragmentSynchronizationType = "FragmentShaderOrdering_INTEL_GL" ->
            <<Call("beginFragmentShaderOrderingINTEL")>>
      [] opts.fragmentSynchronizationType = "FragmentShaderInterlock_ARB_GL" ->
            <<Call("beginInvocationInterlockARB")>>

\* injectFinalizeCode emitting an end call for INTEL ordering too.
ImagesFinalizeCode_IntelEnd(opts) ==
    CASE opts.fragmentSynchronizationType \in {"RasterizerOrderViews_D3D", "NotSupported"} ->
            <<>>
      [] opts.fragmentSynchronizationType \in
             {"FragmentShaderInterlock_NV_GL", "FragmentShaderOrdering_INTEL_GL"} ->
            <<Call("endInvocationInterlockNV")>>
      [] opts.fragmentSynchronizationType = "FragmentShaderInterlock_ARB_GL" ->
            <<Call("endInvocationInterlockARB")>>

\* RewritePLSToImagesTraverser::injectFinalizeCode: the statements inserted.
ImagesFinalizeCode(opts) ==
    CASE opts.fragmentSynchronizationType \in
             {"RasterizerOrderViews_D3D", "FragmentShaderOrdering_INTEL_GL", "NotSupported"} ->
            <<>>
      [] opts.fragmentSynchronizationType = "FragmentShaderInterlock_NV_GL" ->
            <<Call("endInvocationInterlockNV")>>
      [] opts.fragmentSynchronizationType = "FragmentShaderInterlock_ARB_GL" ->
            <<Call("endInvocationInterlockARB")>>

\* RewritePLSToFramebufferFetchTraverser::injectSetupCode: one
\* "accessVar = fragmentVar" per attachment, in bindingOrderedMap order.
FetchSetupCode(t) ==
    LET order == bindingOrderedMap(t.mPLSAttachments)
    IN [i \in 1 .. Len(order) |->
           NewStmt("accessVar=fragmentVar", order[i], 0,
                   Expr(0, "fragmentVar", order[i],
                        swizzle(t.mPLSAttachments[order[i]], 4)))]

\* The flushes emitted from the highest binding down.
FetchFinalizeCode_Descending(t) ==
    LET order == bindingOrderedMap(t.mPLSAttachments)
    IN [i \in 1 .. Len(order) |->
           NewStmt("fragmentVar=accessVar", order[Len(order) + 1 - i], 0,
                   Expr(0, "accessVar", order[Len(order) + 1 - i],
                        swizzle(t.mPLSAttachments[order[Len(order) + 1 - i]], 4)))]

\* RewritePLSToFramebufferFetchTraverser::injectFinalizeCode: one
\* "fragmentVar = accessVar" per attachment, in bindingOrderedMap order.
FetchFinalizeCode(t) ==
    LET order == bindingOrderedMap(t.mPLSAttachments)
    IN [i \in 1 .. Len(order) |->
           NewStmt("fragmentVar=accessVar", order[i], 0,
                   Expr(0, "accessVar", order[i],
                        swizzle(t.mPLSAttachments[order[i]], 4)))]

\* injectSetupCode(mainBody, plsBeginPosition), positions from 0 as in the code.
injectSetupCode(t, body, plsBeginPosition, opts) ==
    insertChildNodes(body, plsBeginPosition + 1,
                     IF IsImages(opts) THEN ImagesSetupCode(opts) ELSE FetchSetupCode(t))

\* injectFinalizeCode(mainBody, plsEndPosition)
injectFinalizeCode(t, body, plsEndPosition, opts) ==
    insertChildNodes(body, plsEndPosition + 1,
                     IF IsImages(opts) THEN ImagesFinalizeCode(opts) ELSE FetchFinalizeCode(t))

\* The coordinate initialization inserted at position 1 instead of 0.
initPixelCoord_AtOne(t, body) ==
    IF t.mGlobalPixelCoord
    THEN insertChildNodes(body, IF body = <<>> THEN 1 ELSE 2, <<Call("pixelCoord=")>>)
    ELSE body

\* "pixelCoord = ivec2(floor(gl_FragCoord.xy))" inserted at position 0.
initPixelCoord(t, body) ==
    IF t.mGlobalPixelCoord THEN insertChildNodes(body, 1, <<Call("pixelCoord=")>>) ELSE body

\* ----------------------------------------------------------------- Init
Options(plsType, sync, highp) ==
    [plsType |-> plsType, fragmentSynchronizationType |-> sync,
     passHighpToPackUnormSnormBuiltins |-> highp]

IsAscending(q) == \A i \in 1 .. Len(q) - 1 : q[i] < q[i + 1]

AscendingSeqs == {q \in InjSeqs(Bindings) : IsAscending(q)}

\* Inputs are <<PLS bindings in declaration order, format assignment,
\* location of the global variable, compile options, declaration of the
\* global variable>>.  A location of -2 stands for a shader without that
\* variable, -1 for a variable declared without location.
\*
\* Shaders with bodies of up to MaxStmts statements, compiled with one
\* configuration per lowering strategy.
ProgramInputs ==
    {<<pls, shift, -2, opts, "outDecl">> :
        pls \in AscendingSeqs, shift \in {0, 2, 4},
        opts \in {Options("ImageStoreR32PackedFormats", "FragmentShaderInterlock_NV_GL", TRUE),
                  Options("ImageStoreNativeFormats", "FragmentShaderInterlock_ARB_GL", FALSE),
                  Options("FramebufferFetch", "NotSupported", FALSE)}}

\* Shaders with a fragment output (out or inout) or another global
\* variable, lowered to framebuffer fetch.
OutputInputs ==
    {<<pls, 0, outLoc, Options("FramebufferFetch", "NotSupported", FALSE), outOp>> :
        pls \in AscendingSeqs, outLoc \in {-1, 0}, outOp \in GlobalDeclOps}

\* The options that differ in what the pass reads of them.
AllOptions ==
    {Options("ImageStoreR32PackedFormats", sync, highp) : sync \in SyncTypes, highp \in BOOLEAN}
      \cup {Options("ImageStoreNativeFormats", sync, FALSE) : sync \in SyncTypes}
      \cup {Options("FramebufferFetch", sync, FALSE) :
               sync \in {"NotSupported", "FragmentShaderInterlock_NV_GL"}}

\* The shader "store(load())", with its declarations in any order, compiled
\* with every configuration.
ConfigInputs ==
    {in \in {<<pls, shift, outLoc, opts, "outDecl">> :
                pls \in InjSeqs(Bindings), shift \in 0 .. (Len(Formats) - 1),
                outLoc \in {-2, -1, 0}, opts \in AllOptions} :
        in[4].plsType = "FramebufferFetch" \/ in[3] = -2}

Bodies(in, maxStmts) ==
    IF maxStmts = 0
    THEN {IF in[1] = <<>> THEN <<>> ELSE <<StoreLoad(100, in[1][1], in[1][1])>>}
    ELSE UNION {MainBodies(n, in[1], in[3] # -2) : n \in 0 .. maxStmts}

\* No registry is used on its own.
NoRegistry == [mMap |-> <<>>, log |-> <<>>, asserted |-> FALSE]

\* No pixel is being stored to.
NoPixel == [pc |-> 0]

InitWith(in, body) ==
    /\ root = RootOf(in[1], in[2], in[3], in[5])
    /\ mainBody = body
    /\ shader = [pls |-> in[1], fmtShift |-> in[2], outLoc |-> in[3], outOp |-> in[5]]
    /\ compileOptions = in[4]
    /\ tr = NewTraverser
    /\ pc = "monomorphize"
    /\ cursor = 0
    /\ earlyFragmentTests = FALSE
    /\ stage = "parsed"
    /\ result = "none"
    /\ failed = "none"
    /\ trace = <<>>
    /\ px = NoPixel
    /\ registry = NoRegistry
    /\ Constructed("AsyncWorkerPool")
    /\ create = NoCreate

Init ==
    \/ \E in \in ProgramInputs \cup OutputInputs :
          \E body \in Bodies(in, MaxStmts) : InitWith(in, body)
    \/ \E in \in ConfigInputs : \E body \in Bodies(in, 0) : InitWith(in, body)

\* -------------------------------------------- RewritePixelLocalStorage
Returns(value) ==
    /\ result' = value
    /\ pc' = "returned"

\* MonomorphizeUnsupportedFunctions succeeds or fails.
Monomorphize ==
    /\ pc = "monomorphize"
    /\ \E ok \in BOOLEAN :
          IF ok THEN pc' = "traverse" /\ UNCHANGED <<result, failed>>
          ELSE Returns(FALSE) /\ failed' = "monomorphize"
    /\ UNCHANGED <<root, mainBody, shader, compileOptions, tr, cursor,
                   earlyFragmentTests, stage, trace, auxVars>>

\* root->traverse(traverser): the next global declaration.
TraverseDeclaration ==
    /\ pc = "traverse"
    /\ cursor < Len(root)
    /\ tr' = visitDeclaration(tr, root[cursor + 1], cursor + 1, compileOptions)
    /\ cursor' = cursor + 1
    /\ UNCHANGED <<root, mainBody, shader, compileOptions, pc, earlyFragmentTests,
                   stage, result, failed, trace, auxVars>>

\* root->traverse(traverser): the next statement of main().
TraverseStatement ==
    /\ pc = "traverse"
    /\ cursor >= Len(root)
    /\ cursor < Len(root) + Len(mainBody)
    /\ LET pos == cursor - Len(root) + 1
       IN tr' = traverseStatement(tr, mainBody[pos], pos, compileOptions, shader.fmtShift)
    /\ cursor' = cursor + 1
    /\ UNCHANGED <<root, mainBody, shader, compileOptions, pc, earlyFragmentTests,
                   stage, result, failed, trace, auxVars>>

\* The pass going on to the injections after updateTree has failed.
UpdateTree_IgnoringFailure ==
    /\ pc = "traverse"
    /\ cursor = Len(root) + Len(mainBody)
    /\ LET tree == updateTree(tr, [root |-> root, main |-> mainBody])
       IN /\ root' = tree.root
          /\ mainBody' = tree.main
    /\ \E ok \in BOOLEAN : failed' = IF ok THEN "none" ELSE "updateTree"
    /\ pc' = "injectSetupCode"
    /\ stage' = "updated"
    /\ UNCHANGED <<shader, compileOptions, tr, cursor, earlyFragmentTests, result, trace, auxVars>>

\* traverser->updateTree(compiler, root), which validates the tree it updated.
UpdateTree ==
    /\ pc = "traverse"
    /\ cursor = Len(root) + Len(mainBody)
    /\ LET tree == updateTree(tr, [root |-> root, main |-> mainBody])
       IN /\ root' = tree.root
          /\ mainBody' = tree.main
    /\ \E ok \in BOOLEAN :
          IF ok THEN pc' = "injectSetupCode" /\ UNCHANGED <<result, failed>>
          ELSE Returns(FALSE) /\ failed' = "updateTree"
    /\ stage' = "updated"
    /\ UNCHANGED <<shader, compileOptions, tr, cursor, earlyFragmentTests, trace, auxVars>>

\* traverser->injectSetupCode(compiler, symbolTable, compileOptions, mainBody, 0)
InjectSetupCode ==
    /\ pc = "injectSetupCode"
    /\ mainBody' = injectSetupCode(tr, mainBody, 0, compileOptions)
    /\ earlyFragmentTests' = IsImages(compileOptions)
    /\ pc' = "injectFinalizeCode"
    /\ stage' = "setup"
    /\ UNCHANGED <<root, shader, compileOptions, tr, cursor, result, failed, trace, auxVars>>

\* traverser->injectFinalizeCode(..., mainBody, mainBody->getChildCount())
InjectFinalizeCode ==
    /\ pc = "injectFinalizeCode"
    /\ mainBody' = injectFinalizeCode(tr, mainBody, Len(mainBody), compileOptions)
    /\ pc' = "globalPixelCoord"
    /\ stage' = "finalized"
    /\ UNCHANGED <<root, shader, compileOptions, tr, cursor, earlyFragmentTests,
                   result, failed, trace, auxVars>>

\* if (traverser->globalPixelCoord()) mainBody->insertStatement(0, ...)
InitGlobalPixelCoord ==
    /\ pc = "globalPixelCoord"
    /\ mainBody' = initPixelCoord(tr, mainBody)
    /\ pc' = "validateAST"
    /\ stage' = "initialized"
    /\ UNCHANGED <<root, shader, compileOptions, tr, cursor, earlyFragmentTests,
                   result, failed, trace, auxVars>>

\* return compiler->validateAST(root)
ValidateAST ==
    /\ pc = "validateAST"
    /\ \E ok \in BOOLEAN : Returns(ok) /\ failed' = IF ok THEN "none" ELSE "validateAST"
    /\ UNCHANGED <<root, mainBody, shader, compileOptions, tr, cursor,
                   earlyFragmentTests, stage, trace, auxVars>>

\* ------------------------------------- one invocation of the lowered main
Event(op, b) == [op |-> op, b |-> b]

\* What executing statement s does: its operand is evaluated, then the
\* statement's own operation is performed.
EventsOf(s) ==
    (IF s.val.op \in {"imageLoad", "expandAccessVar", "pixelLocalLoadANGLE"}
     THEN <<Event(s.val.op, s.val.b)>> ELSE <<>>) \o <<Event(s.op, s.b)>>

RECURSIVE RunBlock(_, _)
\* The events of the statements body[k..], up to a return.
RunBlock(body, k) ==
    IF k > Len(body) THEN <<>>
    ELSE IF body[k].op = "return" THEN <<Event("return", -1)>>
    ELSE EventsOf(body[k]) \o RunBlock(body, k + 1)

HasReturn(events) == \E i \in DOMAIN events : events[i].op = "return"

RECURSIVE RunMain(_, _, _)
\* The events of one invocation that executes body[k..]; taken holds the
\* positions of the `if` statements whose condition is true.
RunMain(body, k, taken) ==
    IF k > Len(body) THEN <<>>
    ELSE LET events == IF body[k].op = "if"
                       THEN (IF k \in taken THEN RunBlock(body[k].body, 1) ELSE <<>>)
                       ELSE RunBlock(<<body[k]>>, 1)
         IN IF HasReturn(events) THEN events ELSE events \o RunMain(body, k + 1, taken)

\* One invocation of the fragment shader, once the pass has succeeded: the
\* statements of main() are executed in order; the condition of each `if`
\* is either true or false; a return leaves main().
InvokeMain ==
    /\ pc = "returned"
    /\ result = TRUE
    /\ \E taken \in SUBSET {k \in 1 .. Len(mainBody) : mainBody[k].op = "if"} :
          trace' = RunMain(mainBody, 1, taken)
    /\ pc' = "exited"
    /\ UNCHANGED <<root, mainBody, shader, compileOptions, tr, cursor,
                   earlyFragmentTests, stage, result, failed, auxVars>>

Next ==
    \/ Monomorphize
    \/ TraverseDeclaration
    \/ TraverseStatement
    \/ UpdateTree
    \/ InjectSetupCode
    \/ InjectFinalizeCode
    \/ InitGlobalPixelCoord
    \/ ValidateAST
    \/ InvokeMain

Spec == Init /\ [][Next]_vars

\* =================================================================
\* Properties of the lowering pass
\* =================================================================
\* The blocks of main(): its body and the bodies of its `if` statements.
AllBlocks == {mainBody} \cup {mainBody[i].body : i \in DOMAIN mainBody}

\* updateTree has applied the queued insertions and replacements.
Lowered == stage # "parsed"

IsFetch == compileOptions.plsType = "FramebufferFetch"

CountOp(block, ops) == Cardinality({i \in DOMAIN block : block[i].op \in ops})

PLSOps == {"plsDecl", "pixelLocalLoadANGLE", "pixelLocalStoreANGLE"}
LoweredLoadOps == {"imageLoad", "expandAccessVar"}
LoweredStoreOps == {"imageStore", "assignAccessVar"}
\* The statements visitPLSStore emits for one store.
StoreHookOps == {"clampAssign", "minAssign", "maskAssign", "workaroundHighpDecl",
                 "memoryBarrierImage"} \cup LoweredStoreOps

\* C1: for a shader with N PLS declarations on N distinct bindings, after the
\* traversal and updateTree, under either strategy: the tree holds no PLS
\* declaration and no pixelLocalLoadANGLE / pixelLocalStoreANGLE, the
\* strategy's registry holds exactly N entries, and there are exactly N
\* replacement backing-store declarations (N images, or N attachments each
\* with its scratch variable).
C1_AllPLSLowered ==
    Lowered =>
       /\ \A i \in DOMAIN root : root[i].op \notin PLSOps
       /\ \A B \in AllBlocks : \A i \in DOMAIN B :
             B[i].op \notin PLSOps /\ B[i].val.op \notin PLSOps
       /\ IF IsFetch
          THEN /\ DOMAIN tr.mPLSAttachments = Range(shader.pls)
               /\ Cardinality(DOMAIN tr.mPLSAttachments) = Len(shader.pls)
               /\ CountOp(root, {"fragmentVarDecl"}) = Len(shader.pls)
               /\ CountOp(root, {"accessVarDecl"}) = Len(shader.pls)
               /\ CountOp(root, {"imageDecl"}) = 0
          ELSE /\ DOMAIN tr.mImages = Range(shader.pls)
               /\ Cardinality(DOMAIN tr.mImages) = Len(shader.pls)
               /\ CountOp(root, {"imageDecl"}) = Len(shader.pls)
               /\ CountOp(root, {"fragmentVarDecl", "accessVarDecl"}) = 0

\* A shader with two PLS bindings has been lowered; one of its stores had a
\* load nested in its value, another stood in an `if` block.
C1_Witness ==
    /\ stage = "updated"
    /\ Len(shader.pls) = 2
    /\ \E i \in DOMAIN mainBody :
          mainBody[i].op = "valueDecl" /\ mainBody[i].val.op \in LoweredLoadOps
    /\ \E i \in DOMAIN mainBody : \E k \in DOMAIN mainBody[i].body :
          mainBody[i].body[k].op \in LoweredStoreOps

\* C3: for every store whose value holds a load, the declaration of the
\* hoisted temporary (which evaluates the lowered load) stands in the same
\* block before every statement the store hook emitted for that store, the
\* lowered store follows it, and none of the hook's statements evaluates a
\* load itself.
C3_NestedLoadBeforeStoreHook ==
    Lowered =>
       \A B \in AllBlocks :
          /\ \A i \in DOMAIN B :
                (B[i].op = "valueDecl" /\ B[i].val.op \in LoweredLoadOps) =>
                   /\ \A j \in DOMAIN B :
                         (B[j].op \in StoreHookOps /\ B[j].var = B[i].var) => i < j
                   /\ \E j \in DOMAIN B :
                         j > i /\ B[j].op \in LoweredStoreOps /\ B[j].var = B[i].var
          /\ \A j \in DOMAIN B :
                B[j].op \in StoreHookOps =>
                   /\ B[j].val.op \notin LoweredLoadOps \cup PLSOps
                   /\ \E i \in DOMAIN B : B[i].op = "valueDecl" /\ B[i].var = B[j].var

\* A store to a packed signed 4x8 format with a nested load has been lowered:
\* its block holds the hoisted load, the clamp, the mask and the barriers.
C3_Witness ==
    /\ stage = "updated"
    /\ \E i, j, k, l \in DOMAIN mainBody :
          /\ mainBody[i].op = "valueDecl" /\ mainBody[i].val.op = "imageLoad"
          /\ mainBody[j].op = "clampAssign" /\ mainBody[j].var = mainBody[i].var
          /\ mainBody[k].op = "maskAssign" /\ mainBody[k].var = mainBody[i].var
          /\ mainBody[l].op = "memoryBarrierImage" /\ mainBody[l].var = mainBody[i].var

\* ---------------------------------------- one invocation of lowered main
Exited == pc = "exited"

\* The positions of the events with one of the operations ops on binding b.
EventsAt(ops, b) == {i \in DOMAIN trace : trace[i].op \in ops /\ trace[i].b = b}

\* The positions of the events with one of the operations ops.
EventsWith(ops) == {i \in DOMAIN trace : trace[i].op \in ops}

FetchAccessOps == {"expandAccessVar", "assignAccessVar"}
ImageAccessOps == {"imageLoad", "imageStore"}
BeginOps == {"beginInvocationInterlockNV", "beginInvocationInterlockARB"}
EndOps == {"endInvocationInterlockNV", "endInvocationInterlockARB"}

\* C2: under framebuffer fetch, on every execution path through the lowered
\* main, every attachment is preloaded (accessVar = fragmentVar) exactly
\* once before any PLS operation and flushed (fragmentVar = accessVar)
\* exactly once after all PLS operations.
C2_PreloadAndFlushOnEveryPath ==
    (Exited /\ IsFetch) =>
       \A b \in DOMAIN tr.mPLSAttachments :
          /\ Cardinality(EventsAt({"accessVar=fragmentVar"}, b)) = 1
          /\ Cardinality(EventsAt({"fragmentVar=accessVar"}, b)) = 1
          /\ \A i \in EventsAt({"accessVar=fragmentVar"}, b) :
                \A j \in EventsWith(FetchAccessOps) : i < j
          /\ \A i \in EventsAt({"fragmentVar=accessVar"}, b) :
                \A j \in EventsWith(FetchAccessOps) : j < i

\* C6: under the image strategy with NV or ARB interlock, on every execution
\* path through the lowered main, the begin-interlock call is executed
\* before the first image access and the end-interlock call after the last.
C6_InterlockBracketsOnEveryPath ==
    (/\ Exited
     /\ IsImages(compileOptions)
     /\ compileOptions.fragmentSynchronizationType \in
           {"FragmentShaderInterlock_NV_GL", "FragmentShaderInterlock_ARB_GL"}) =>
       /\ Cardinality(EventsWith(BeginOps)) = 1
       /\ Cardinality(EventsWith(EndOps)) = 1
       /\ \A i \in EventsWith(BeginOps) : \A j \in EventsWith(ImageAccessOps) : i < j
       /\ \A i \in EventsWith(EndOps) : \A j \in EventsWith(ImageAccessOps) : j < i

\* ------------------------------------------------ the injected statements
Injected == stage \in {"finalized", "initialized"}

\* The operations of the statements of main() that are in ops, in order.
OpsIn(ops) ==
    LET at == {i \in DOMAIN mainBody : mainBody[i].op \in ops}
        RECURSIVE Collect(_)
        Collect(i) == IF i > Len(mainBody) THEN <<>>
                      ELSE (IF i \in at THEN <<mainBody[i].op>> ELSE <<>>) \o Collect(i + 1)
    IN Collect(1)

AllBeginOps == BeginOps \cup {"beginFragmentShaderOrderingINTEL"}
AllEndOps == EndOps \cup {"endFragmentShaderOrderingINTEL"}

\* C7: under the image strategy, for every synchronization selector,
\* injectSetupCode inserts exactly one begin call for NV interlock, INTEL
\* ordering and ARB interlock and none otherwise; injectFinalizeCode inserts
\* exactly one end call of the begin's mechanism for NV and ARB and none
\* otherwise.  So at most one begin and one end are present, and no end
\* without the begin of the same mechanism.
C7_BeginEndPerSelector ==
    IsImages(compileOptions) =>
       LET sync == compileOptions.fragmentSynchronizationType
           begins == OpsIn(AllBeginOps)
           ends == OpsIn(AllEndOps)
       IN /\ stage \in {"parsed", "updated"} => begins = <<>> /\ ends = <<>>
          /\ stage = "setup" => ends = <<>>
          /\ stage \in {"setup", "finalized", "initialized"} =>
                begins = CASE sync = "FragmentShaderInterlock_NV_GL" ->
                                 <<"beginInvocationInterlockNV">>
                           [] sync = "FragmentShaderOrdering_INTEL_GL" ->
                                 <<"beginFragmentShaderOrderingINTEL">>
                           [] sync = "FragmentShaderInterlock_ARB_GL" ->
                                 <<"beginInvocationInterlockARB">>
                           [] OTHER -> <<>>
          /\ Injected =>
                ends = CASE sync = "FragmentShaderInterlock_NV_GL" ->
                               <<"endInvocationInterlockNV">>
                         [] sync = "FragmentShaderInterlock_ARB_GL" ->
                               <<"endInvocationInterlockARB">>
                         [] OTHER -> <<>>
          /\ Len(begins) <= 1 /\ Len(ends) <= 1
          /\ \A i \in DOMAIN mainBody : \A m \in {"NV", "ARB"} :
                mainBody[i].op = "endInvocationInterlock" \o m =>
                   \E j \in 1 .. i - 1 : mainBody[j].op = "beginInvocationInterlock" \o m

\* Setup and finalize code were injected for INTEL ordering: main() begins
\* the ordering before its image store and holds no end call.
C7_Witness ==
    /\ stage = "finalized"
    /\ IsImages(compileOptions)
    /\ compileOptions.fragmentSynchronizationType = "FragmentShaderOrdering_INTEL_GL"
    /\ mainBody # <<>>
    /\ mainBody[1].op = "beginFragmentShaderOrderingINTEL"
    /\ mainBody[Len(mainBody)].op = "memoryBarrierImage"

\* C8: when a global pixel coordinate was allocated, its initialization is
\* inserted at position 0 after the setup and the finalize code, so it is
\* the first statement of the final main(): it precedes the begin call,
\* every lowered image access and the end call (coordinate initialization,
\* setup code, body, finalize code).
C8_PixelCoordInitFirst ==
    LET inits == {i \in DOMAIN mainBody : mainBody[i].op = "pixelCoord="}
    IN /\ stage # "initialized" => inits = {}
       /\ (stage = "initialized" /\ ~tr.mGlobalPixelCoord) => inits = {}
       /\ (stage = "initialized" /\ tr.mGlobalPixelCoord) =>
             /\ inits = {1}
             /\ \A i \in DOMAIN mainBody :
                   mainBody[i].op \in AllBeginOps => i = 2
             /\ \A i \in DOMAIN mainBody :
                   mainBody[i].op \in AllEndOps => i = Len(mainBody)
             /\ \A i \in DOMAIN mainBody :
                   (\/ mainBody[i].op \in AllBeginOps \cup AllEndOps \cup ImageAccessOps
                    \/ mainBody[i].val.op \in ImageAccessOps
                    \/ \E k \in DOMAIN mainBody[i].body :
                          \/ mainBody[i].body[k].op \in ImageAccessOps
                          \/ mainBody[i].body[k].val.op \in ImageAccessOps) => 1 < i
             /\ \A i \in DOMAIN mainBody :
                   (mainBody[i].op \in AllBeginOps /\ Len(OpsIn(AllEndOps)) = 1) =>
                      \A j \in DOMAIN mainBody :
                         mainBody[j].op \notin AllBeginOps \cup AllEndOps \cup {"pixelCoord="} =>
                            i < j /\ j < Len(mainBody)

\* The final main() of a shader with image accesses under NV interlock: the
\* coordinate initialization, the begin call, an image load, an image store
\* and the end call.
C8_Witness ==
    /\ stage = "initialized"
    /\ tr.mGlobalPixelCoord
    /\ Len(mainBody) >= 5
    /\ mainBody[1].op = "pixelCoord="
    /\ mainBody[2].op = "beginInvocationInterlockNV"
    /\ mainBody[Len(mainBody)].op = "endInvocationInterlockNV"
    /\ \E i, j \in DOMAIN mainBody :
          mainBody[i].val.op = "imageLoad" /\ mainBody[j].op = "imageStore"

\* C9: under framebuffer fetch the output location of the attachment of
\* binding b is MaxCombinedDrawBuffersAndPixelLocalStoragePlanes - b - 1;
\* binding -> location is injective and strictly decreasing, binding 0
\* having the highest location.
C9_LocationFromMaxDown ==
    LET att == tr.mPLSAttachments
    IN /\ \A b \in DOMAIN att :
             /\ att[b].location = MaxCombinedDrawBuffersAndPixelLocalStoragePlanes - b - 1
             /\ att[b].location <= MaxCombinedDrawBuffersAndPixelLocalStoragePlanes - 1
             /\ Lowered =>
                   \E i \in DOMAIN root :
                      /\ root[i].op = "fragmentVarDecl"
                      /\ root[i].b = b
                      /\ root[i].loc = att[b].location
       /\ \A b1, b2 \in DOMAIN att :
             /\ att[b1].location = att[b2].location => b1 = b2
             /\ b1 < b2 => att[b1].location > att[b2].location

\* Two attachments were declared, the higher binding first, and the tree
\* holds their fragment outputs.
C9_Witness ==
    /\ Lowered
    /\ IsFetch
    /\ Len(shader.pls) = 2
    /\ shader.pls[1] > shader.pls[2]
    /\ Cardinality(DOMAIN tr.mPLSAttachments) = 2
    /\ CountOp(root, {"fragmentVarDecl"}) = 2

\* C10: under framebuffer fetch, after lowering, every attachment location
\* is non-negative and no attachment has the output location of a genuine
\* fragment output, the output rewritten to explicit location 0 included.
C10_NoCollisionWithOutputs ==
    (IsFetch /\ Lowered) =>
       \A b \in DOMAIN tr.mPLSAttachments :
          /\ tr.mPLSAttachments[b].location >= 0
          /\ \A i \in DOMAIN root :
                root[i].op \in OutputDeclOps => root[i].loc # tr.mPLSAttachments[b].location

\* =================================================================
\* One pixel: the lowered store and load executed on channel values
\* =================================================================
\* A 32-bit value is its four bytes, least significant first.
Word(b0, b1, b2, b3) == <<b0, b1, b2, b3>>

\* The two's-complement word of the integer n, -2^31 <= n < 2^31.
WordOf(n) == [k \in 1 .. 4 |-> (n \div (256 ^ (k - 1))) % 256]

IsNegative(w) == w[4] >= 128

\* The value of w read as a signed 32-bit integer.
SignedValue(w) ==
    IF IsNegative(w)
    THEN -((255 - w[1]) + 256 * (255 - w[2]) + 65536 * (255 - w[3])
             + 16777216 * (255 - w[4])) - 1
    ELSE w[1] + 256 * w[2] + 65536 * w[3] + 16777216 * w[4]

\* a < b for words read as unsigned 32-bit integers.
UnsignedLess(a, b) ==
    \E k \in 1 .. 4 : a[k] < b[k] /\ \A j \in (k + 1) .. 4 : a[j] = b[j]

RECURSIVE BitAnd(_, _)
BitAnd(a, b) ==
    IF a = 0 \/ b = 0 THEN 0
    ELSE (a % 2) * (b % 2) + 2 * BitAnd(a \div 2, b \div 2)

RECURSIVE BitOr(_, _)
BitOr(a, b) ==
    IF a = 0 THEN b ELSE IF b = 0 THEN a
    ELSE (IF a % 2 = 1 \/ b % 2 = 1 THEN 1 ELSE 0) + 2 * BitOr(a \div 2, b \div 2)

WordAnd(a, b) == [k \in 1 .. 4 |-> BitAnd(a[k], b[k])]
WordOr(a, b) == [k \in 1 .. 4 |-> BitOr(a[k], b[k])]

\* w << n for n a multiple of 8: the bits shifted out are lost.
ShiftLeft(w, n) == [k \in 1 .. 4 |-> IF k - n \div 8 >= 1 THEN w[k - n \div 8] ELSE 0]

\* w >> n for n a multiple of 8: sign-extending for a signed operand,
\* zero-filling for an unsigned one.
ShiftRight(w, n, signed) ==
    [k \in 1 .. 4 |-> IF k + n \div 8 <= 4 THEN w[k + n \div 8]
                      ELSE IF signed /\ IsNegative(w) THEN 255 ELSE 0]

\* GLSL clamp(x, minVal, maxVal) = min(max(x, minVal), maxVal) on ints.
clamp(x, minVal, maxVal) ==
    LET lo == IF x < minVal THEN minVal ELSE x
    IN IF maxVal < lo THEN maxVal ELSE lo

\* GLSL min(x, y) on uints: y if y < x, otherwise x.
min(x, y) == IF UnsignedLess(y, x) THEN y ELSE x

Channels == 1 .. 4

\* The store without the mask of the sign bits.
maskAssign_None(plsVar) == plsVar

\* The store keeping the low 8 bits of an unsigned channel instead of
\* clamping it.
minAssign_Truncating(plsVar) == [i \in Channels |-> WordAnd(plsVar[i], WordOf(255))]

\* plsVar = clamp(plsVar, -128, 127)
clampAssign(plsVar) ==
    [i \in Channels |-> WordOf(clamp(SignedValue(plsVar[i]), -128, 127))]

\* plsVar = min(plsVar, 255u)
minAssign(plsVar) == [i \in Channels |-> min(plsVar[i], WordOf(255))]

\* plsVar &= 0xff
maskAssign(plsVar) == [i \in Channels |-> WordAnd(plsVar[i], WordOf(255))]

\* r | (g << 8) | (b << 16) | (a << 24)
orShifted(plsVar) ==
    LET shiftComponent(componentIdx) == ShiftLeft(plsVar[componentIdx + 1], componentIdx * 8)
    IN WordOr(WordOr(WordOr(plsVar[1], shiftComponent(1)), shiftComponent(2)),
              shiftComponent(3))

shifts == <<24, 16, 8, 0>>

\* data.rrrr << uvec4(24, 16, 8, 0) >> 24u
shiftLeftRight(data, signed) ==
    [i \in Channels |-> ShiftRight(ShiftLeft(data[1], shifts[i]), 24, signed)]

\* The image's data type is signed (DataTypeOfImageType).
IsSignedImage(image2D) == image2D.basicType = "EbtIImage2D"

\* The value of an 8-bit channel after a store of w: w itself when the
\* format represents it; otherwise the API either saturates or keeps the low
\* 8 bits.
StoredChannel(w, signed) ==
    IF signed
    THEN (IF SignedValue(w) \in -128 .. 127 THEN {w}
          ELSE {WordOf(clamp(SignedValue(w), -128, 127)),
                ShiftRight(ShiftLeft(w, 24), 24, TRUE)})
    ELSE (IF ~UnsignedLess(WordOf(255), w) THEN {w}
          ELSE {WordOf(255), WordAnd(w, WordOf(255))})

\* The texels imageStore(image2D, pixelCoord, data) can leave in the image:
\* a 32-bit single-channel image keeps data.r, a 4x8-bit image the four
\* channels as far as 8 bits hold them.
imageStore(image2D, data) ==
    IF image2D.imageInternalFormat \in {"EiifR32I", "EiifR32UI"}
    THEN {<<data[1], WordOf(0), WordOf(0), WordOf(1)>>}
    ELSE {<<r, g, b, a>> : r \in StoredChannel(data[1], IsSignedImage(image2D)),
                           g \in StoredChannel(data[2], IsSignedImage(image2D)),
                           b \in StoredChannel(data[3], IsSignedImage(image2D)),
                           a \in StoredChannel(data[4], IsSignedImage(image2D))}

\* The shader "pixelLocalStoreANGLE(pls, v); x = pixelLocalLoadANGLE(pls);"
\* with one PLS uniform of format fmt on binding 0.
PixelShaderRoot(fmt) == <<Decl(1, "plsDecl", 0, fmt, -1, 0)>>
PixelShaderMain == <<StoreConst(100, 0), InitLoad(200, 0)>>
FormatShift(fmt) == CHOOSE shift \in 0 .. (Len(Formats) - 1) : PLSFormatOf(shift, 0) = fmt

\* The traverser after root->traverse() over that shader.
PixelShaderTraversed(fmt, opts) ==
    LET t1 == visitDeclaration(NewTraverser, PixelShaderRoot(fmt)[1], 1, opts)
        t2 == traverseStatement(t1, PixelShaderMain[1], 1, opts, FormatShift(fmt))
    IN traverseStatement(t2, PixelShaderMain[2], 2, opts, FormatShift(fmt))

\* Channel values stored: the bounds of the 8-bit ranges, their neighbours
\* and values far outside.
SignedChannelValues ==
    {WordOf(n) : n \in {-200, -129, -128, -1, 0, 127, 128, 200}} \cup {Word(0, 0, 0, 128)}
UnsignedChannelValues ==
    {WordOf(n) : n \in {0, 1, 255, 256, 300}} \cup {Word(0, 0, 0, 128),
                                                     Word(255, 255, 255, 255)}

\* A normalized channel value is the numerator of a fraction over
\* UnormDenominator, a quarter of one 8-bit step.
UnormDenominator == 4 * 255

\* 0, 1, the values nearest to 0, a tie between 0 and 1/255, 1/2 (a tie
\* between 127/255 and 128/255) and its neighbour.
UnormChannelValues == {0, 1, 2, 3, 2 * 255, 2 * 255 + 1, UnormDenominator}

ChannelValues(fmt) ==
    CASE fmt = "EiifRGBA8I" -> SignedChannelValues
      [] fmt = "EiifRGBA8UI" -> UnsignedChannelValues
      [] fmt = "EiifRGBA8" -> UnormChannelValues

\* GLSL round(c * 255.0) for c = n / UnormDenominator clamped to [0, 1]:
\* the nearest integer; a fraction of 0.5 rounds in either direction.
RoundUnorm(n) ==
    LET c == clamp(n, 0, UnormDenominator)
        lo == (c * 255) \div UnormDenominator
        rest == (c * 255) % UnormDenominator
    IN IF 2 * rest < UnormDenominator THEN {lo}
       ELSE IF 2 * rest > UnormDenominator THEN {lo + 1}
       ELSE {lo, lo + 1}

\* packUnorm4x8 dropping the fraction instead of rounding.
packUnorm4x8_Truncating(v) ==
    {[i \in Channels |-> (clamp(v[i], 0, UnormDenominator) * 255) \div UnormDenominator]}

\* packUnorm4x8(v): the words it can return, the first component in the
\* least significant byte.
packUnorm4x8(v) ==
    {Word(r, g, b, a) : r \in RoundUnorm(v[1]), g \in RoundUnorm(v[2]),
                        b \in RoundUnorm(v[3]), a \in RoundUnorm(v[4])}

\* unpackUnorm4x8(p): the numerators over 255 of its four components.
unpackUnorm4x8(p) == [i \in Channels |-> p[i]]

\* The configurations a format is stored under: the integer formats with
\* and without R32 packing, the normalized format with packing, with and
\* without the precision workaround.
PackOptions(fmt) ==
    IF fmt = "EiifRGBA8"
    THEN {Options("ImageStoreR32PackedFormats", "NotSupported", highp) : highp \in BOOLEAN}
    ELSE {Options(plsType, "NotSupported", FALSE) : plsType \in ImagePLSTypes}

\* The pass has lowered the shader; the pixel's store is about to run on
\* the channel values in.
InitPack ==
    \E fmt \in {"EiifRGBA8I", "EiifRGBA8UI", "EiifRGBA8"} : \E opts \in PackOptions(fmt) :
       LET t == PixelShaderTraversed(fmt, opts)
           tree == updateTree(t, [root |-> PixelShaderRoot(fmt), main |-> PixelShaderMain])
       IN /\ root = tree.root
          /\ mainBody = tree.main
          /\ shader = [pls |-> <<0>>, fmtShift |-> FormatShift(fmt), outLoc |-> -2,
                       outOp |-> "outDecl"]
          /\ compileOptions = opts
          /\ tr = t
          /\ pc = "injectSetupCode"
          /\ cursor = Len(PixelShaderRoot(fmt)) + Len(PixelShaderMain)
          /\ earlyFragmentTests = FALSE
          /\ stage = "updated"
          /\ result = "none"
          /\ failed = "none"
          /\ trace = <<>>
          /\ \E r, g, b, a \in ChannelValues(fmt) :
                px = [pc |-> 1, fmt |-> fmt, in |-> <<r, g, b, a>>, plsVar |-> <<>>,
                      workaroundHighpVar |-> <<>>, image |-> <<>>, out |-> <<>>,
                      stored |-> FALSE, loaded |-> FALSE]
          /\ registry = NoRegistry
          /\ Constructed("AsyncWorkerPool")
          /\ create = NoCreate

\* The statement of main() the pixel executes next is one with operation op.
AtStatement(op) ==
    /\ px.pc \in DOMAIN mainBody
    /\ mainBody[px.pc].op = op

\* T valueVar = v
ExecValueDecl ==
    /\ AtStatement("valueDecl")
    /\ px' = [px EXCEPT !.pc = @ + 1, !.plsVar = px.in]
    /\ UNCHANGED <<passVars, registry, poolVars>>

ExecClampAssign ==
    /\ AtStatement("clampAssign")
    /\ px' = [px EXCEPT !.pc = @ + 1, !.plsVar = clampAssign(@)]
    /\ UNCHANGED <<passVars, registry, poolVars>>

ExecMinAssign ==
    /\ AtStatement("minAssign")
    /\ px' = [px EXCEPT !.pc = @ + 1, !.plsVar = minAssign(@)]
    /\ UNCHANGED <<passVars, registry, poolVars>>

ExecMaskAssign ==
    /\ AtStatement("maskAssign")
    /\ px' = [px EXCEPT !.pc = @ + 1, !.plsVar = maskAssign(@)]
    /\ UNCHANGED <<passVars, registry, poolVars>>

ExecMemoryBarrierImage ==
    /\ AtStatement("memoryBarrierImage")
    /\ px' = [px EXCEPT !.pc = @ + 1]
    /\ UNCHANGED <<passVars, registry, poolVars>>

\* highp vec4 workaroundHighpVar = plsVar
ExecWorkaroundHighpDecl ==
    /\ AtStatement("workaroundHighpDecl")
    /\ px' = [px EXCEPT !.pc = @ + 1, !.workaroundHighpVar = px.plsVar]
    /\ UNCHANGED <<passVars, registry, poolVars>>

\* imageStore(image2D, pixelCoord, ivec4(packedData)) or the same with uvec4
ExecImageStore ==
    /\ AtStatement("imageStore")
    /\ LET image2D == tr.mImages[mainBody[px.pc].b]
           value == IF mainBody[px.pc].val.op = "workaroundHighpVar"
                    THEN px.workaroundHighpVar ELSE px.plsVar
           packedData ==
              CASE mainBody[px.pc].val.aux = "orShifted" ->
                      {[i \in Channels |-> orShifted(value)]}
                [] mainBody[px.pc].val.aux = "packUnorm4x8" ->
                      {[i \in Channels |-> p] : p \in packUnorm4x8(value)}
                [] OTHER -> {value}
       IN \E data \in packedData : \E texel \in imageStore(image2D, data) :
             px' = [px EXCEPT !.pc = @ + 1, !.image = texel, !.stored = TRUE]
    /\ UNCHANGED <<passVars, registry, poolVars>>

\* x = <unpacked> imageLoad(image2D, pixelCoord)
ExecImageLoad ==
    /\ AtStatement("init")
    /\ mainBody[px.pc].val.op = "imageLoad"
    /\ LET image2D == tr.mImages[mainBody[px.pc].val.b]
           data == px.image
       IN px' = [px EXCEPT !.pc = @ + 1, !.loaded = TRUE,
                           !.out = CASE mainBody[px.pc].val.aux = "shiftLeftRight" ->
                                           shiftLeftRight(data, IsSignedImage(image2D))
                                     [] mainBody[px.pc].val.aux = "unpackUnorm4x8" ->
                                           unpackUnorm4x8(data[1])
                                     [] OTHER -> data]
    /\ UNCHANGED <<passVars, registry, poolVars>>

NextPack ==
    \/ ExecValueDecl
    \/ ExecClampAssign
    \/ ExecMinAssign
    \/ ExecMaskAssign
    \/ ExecWorkaroundHighpDecl
    \/ ExecMemoryBarrierImage
    \/ ExecImageStore
    \/ ExecImageLoad

SpecPack == InitPack /\ [][NextPack]_vars

\* The value of 8-bit range nearest to n.
NearestInt8(n) == IF n < -128 THEN -128 ELSE IF n > 127 THEN 127 ELSE n

Packed == needsR32Packing(compileOptions)

C5_UnsignedRoundTripClamps ==
    px.fmt = "EiifRGBA8UI" =>
       LET clamped == [i \in Channels |->
                          IF px.in[i][2] = 0 /\ px.in[i][3] = 0 /\ px.in[i][4] = 0
                          THEN px.in[i] ELSE Word(255, 0, 0, 0)]
       IN /\ px.loaded => px.out = clamped
          /\ px.loaded =>
                \A i \in Channels : px.in[i] = WordOf(300) => px.out[i] = WordOf(255)
          /\ (px.stored /\ ~Packed) => px.image = clamped
          /\ (px.stored /\ Packed) =>
                px.image[1] = [i \in Channels |-> clamped[i][1]]

\* A packed store and load of (300, 2^32 - 1, 0, 255) has run.
C5_Witness ==
    /\ px.fmt = "EiifRGBA8UI"
    /\ Packed
    /\ px.loaded
    /\ px.in = <<WordOf(300), Word(255, 255, 255, 255), WordOf(0), WordOf(255)>>
    /\ px.out = <<WordOf(255), WordOf(255), WordOf(0), WordOf(255)>>

\* ------------------------------------------------- relocated outputs
\* The variables the symbol references of main() refer to.
SymbolRefs ==
    UNION {{B[i].val.b : i \in {k \in DOMAIN B : B[k].val.op = "symbol"}} : B \in AllBlocks}

\* The declarations of the root block that are not PLS backing stores.
GlobalDecls == {i \in DOMAIN root : root[i].op \in GlobalDeclOps}

Returned == pc \in {"returned", "exited"}

\* The statements the orchestrator injects into main() after updateTree.
InjectedOps ==
    AllBeginOps \cup AllEndOps \cup {"accessVar=fragmentVar", "fragmentVar=accessVar",
                                     "pixelCoord="}

\* C12: RewritePixelLocalStorage returns false without traversing or
\* injecting anything when monomorphization fails, returns false without
\* injecting setup, finalize or coordinate initialization code when
\* updateTree fails, and otherwise performs all injections and returns the
\* result of validateAST; it never returns true when one of the three failed.
C12_FailuresPropagate ==
    /\ ~Returned => result = "none" /\ failed = "none"
    /\ Returned => (result = TRUE <=> failed = "none")
    /\ Returned => result \in BOOLEAN
    /\ failed = "monomorphize" =>
          /\ stage = "parsed"
          /\ cursor = 0
          /\ tr = NewTraverser
          /\ root = RootOf(shader.pls, shader.fmtShift, shader.outLoc, shader.outOp)
          /\ CountOp(mainBody, InjectedOps) = 0
          /\ ~earlyFragmentTests
    /\ failed = "updateTree" =>
          /\ stage = "updated"
          /\ CountOp(mainBody, InjectedOps) = 0
          /\ ~earlyFragmentTests
    /\ (Returned /\ failed \in {"none", "validateAST"}) =>
          /\ stage = "initialized"
          /\ earlyFragmentTests = IsImages(compileOptions)
          /\ CountOp(mainBody, {"pixelCoord="}) = IF tr.mGlobalPixelCoord THEN 1 ELSE 0
          /\ CountOp(mainBody, {"accessVar=fragmentVar"}) =
                Cardinality(DOMAIN tr.mPLSAttachments)
          /\ CountOp(mainBody, {"fragmentVar=accessVar"}) =
                Cardinality(DOMAIN tr.mPLSAttachments)
          /\ IsImages(compileOptions) =>
                /\ OpsIn(AllBeginOps) = [i \in DOMAIN ImagesSetupCode(compileOptions) |->
                                            ImagesSetupCode(compileOptions)[i].op]
                /\ OpsIn(AllEndOps) = [i \in DOMAIN ImagesFinalizeCode(compileOptions) |->
                                          ImagesFinalizeCode(compileOptions)[i].op]

\* updateTree failed on a shader with PLS lowered to images under NV
\* interlock: the pass has returned false.
C12_Witness ==
    /\ pc = "returned"
    /\ result = FALSE
    /\ failed = "updateTree"
    /\ tr.mGlobalPixelCoord
    /\ compileOptions.fragmentSynchronizationType = "FragmentShaderInterlock_NV_GL"
    /\ \E i \in DOMAIN mainBody : mainBody[i].op = "imageStore"

\* =================================================================
\* PLSBackingStoreMap used with any sequence of insertNew and find
\* =================================================================
MaxCalls == 3

\* The PLS symbols handed to the registry: a uniform on binding b declared
\* with one of two formats.
PLSSymbols ==
    {Decl(1, "plsDecl", b, fmt, -1, 0) : b \in Bindings, fmt \in {"EiifRGBA8", "EiifR32F"}}

\* The backing store created for a PLS symbol.
BackingStoreOf(plsSymbol) ==
    createPLSImageReplacement(plsSymbol,
        Options("ImageStoreNativeFormats", "NotSupported", FALSE))

BackingStores == {BackingStoreOf(plsSymbol) : plsSymbol \in PLSSymbols}

InitRegistry ==
    /\ root = <<>>
    /\ mainBody = <<>>
    /\ shader = [pls |-> <<>>, fmtShift |-> 0, outLoc |-> -2, outOp |-> "outDecl"]
    /\ compileOptions = Options("ImageStoreNativeFormats", "NotSupported", FALSE)
    /\ tr = NewTraverser
    /\ pc = "monomorphize"
    /\ cursor = 0
    /\ earlyFragmentTests = FALSE
    /\ stage = "parsed"
    /\ result = "none"
    /\ failed = "none"
    /\ trace = <<>>
    /\ px = NoPixel
    /\ registry = NoRegistry
    /\ Constructed("AsyncWorkerPool")
    /\ create = NoCreate

\* insertNew(plsSymbol, backingStore).  ASSERT(result.second) fails when the
\* binding has an entry; where assertions are compiled out, std::map::insert
\* has left that entry in place and the call returns.
insertNew ==
    /\ Len(registry.log) < MaxCalls
    /\ \E plsSymbol \in PLSSymbols :
          registry' =
             [mMap |-> MapInsert(registry.mMap, plsSymbol.b, BackingStoreOf(plsSymbol)),
              log |-> Append(registry.log,
                             [op |-> "insertNew", binding |-> plsSymbol.b,
                              store |-> BackingStoreOf(plsSymbol)]),
              asserted |-> registry.asserted \/ HasEntry(registry.mMap, plsSymbol.b)]
    /\ UNCHANGED <<passVars, px, poolVars>>

\* find(plsSymbol).  ASSERT(iter != mMap.end()) fails when the binding has
\* no entry; where assertions are compiled out the call returns a reference
\* through the end iterator, which may read as any store.
find ==
    /\ Len(registry.log) < MaxCalls
    /\ \E binding \in Bindings :
          \E store \in IF HasEntry(registry.mMap, binding)
                       THEN {registry.mMap[binding]} ELSE BackingStores :
             registry' =
                [registry EXCEPT
                    !.log = Append(@, [op |-> "find", binding |-> binding, store |-> store]),
                    !.asserted = @ \/ ~HasEntry(registry.mMap, binding)]
    /\ UNCHANGED <<passVars, px, poolVars>>

NextRegistry == insertNew \/ find

SpecRegistry == InitRegistry /\ [][NextRegistry]_vars

\* The positions of the log with an insertNew of binding b.
InsertsOf(b) ==
    {i \in DOMAIN registry.log :
        registry.log[i].op = "insertNew" /\ registry.log[i].binding = b}

FirstInsertOf(b) == CHOOSE i \in InsertsOf(b) : \A j \in InsertsOf(b) : i <= j

\* Call i of the log ran into its assertion.
Defect(i) ==
    LET call == registry.log[i]
    IN IF call.op = "insertNew"
       THEN \E j \in InsertsOf(call.binding) : j < i
       ELSE ~\E j \in InsertsOf(call.binding) : j < i

BindingsOf(op) ==
    LET RECURSIVE Collect(_)
        Collect(i) == IF i > Len(mainBody) THEN <<>>
                      ELSE (IF mainBody[i].op = op THEN <<mainBody[i].b>> ELSE <<>>)
                              \o Collect(i + 1)
    IN Collect(1)

\* The elements of the set S of integers in ascending order.
AscendingOrder(S) ==
    CHOOSE q \in InjSeqs(S) : Len(q) = Cardinality(S) /\ IsAscending(q)

\* C14: under framebuffer fetch the injected preloads and the injected
\* flushes are each emitted in strictly ascending binding order, one per
\* registered attachment and in the same order as each other, whatever the
\* order of the PLS declarations in the shader.
C14_PreloadFlushAscending ==
    (IsFetch /\ Injected) =>
       /\ BindingsOf("accessVar=fragmentVar") = AscendingOrder(Range(shader.pls))
       /\ BindingsOf("fragmentVar=accessVar") = AscendingOrder(Range(shader.pls))
       /\ IsAscending(BindingsOf("accessVar=fragmentVar"))
       /\ BindingsOf("fragmentVar=accessVar") = BindingsOf("accessVar=fragmentVar")
       /\ Range(BindingsOf("accessVar=fragmentVar")) = DOMAIN tr.mPLSAttachments
       /\ Len(BindingsOf("accessVar=fragmentVar")) = Cardinality(DOMAIN tr.mPLSAttachments)

\* The shader declares binding 1 before binding 0; main() preloads and
\* flushes binding 0 before binding 1.
C14_Witness ==
    /\ IsFetch
    /\ stage = "finalized"
    /\ Len(shader.pls) >= 2
    /\ shader.pls[1] = 1
    /\ shader.pls[2] = 0
    /\ SubSeq(BindingsOf("accessVar=fragmentVar"), 1, 2) = <<0, 1>>
    /\ SubSeq(BindingsOf("fragmentVar=accessVar"), 1, 2) = <<0, 1>>

\* ------------------------------------------- the global pixel coordinate
\* The declarations of a pixel coordinate queued for insertion.
QueuedCoordDecls ==
    {i \in DOMAIN tr.mInsertions :
        \E k \in DOMAIN tr.mInsertions[i].before :
           tr.mInsertions[i].before[k].op = "pixelCoordDecl"}

\* The statements of main() and of its `if` blocks that access an image.
ImageAccesses ==
    UNION {{<<B, i>> : i \in {k \in DOMAIN B : \/ B[k].op \in ImageAccessOps
                                               \/ B[k].val.op \in ImageAccessOps}} :
           B \in AllBlocks}

\* C15: the global pixel coordinate is created and declared at most once per
\* run, however many PLS declarations are visited; after the traversal it
\* exists if and only if the image strategy visited a PLS declaration, never
\* under framebuffer fetch; its initialization is inserted into main()
\* exactly once when it exists and not at all otherwise; every lowered image
\* access uses this one variable.
C15_OnePixelCoord ==
    /\ Cardinality(QueuedCoordDecls) = IF tr.mGlobalPixelCoord THEN 1 ELSE 0
    /\ IsFetch => ~tr.mGlobalPixelCoord
    /\ tr.mGlobalPixelCoord <=>
          /\ IsImages(compileOptions)
          /\ \E i \in 1 .. cursor : i \in DOMAIN shader.pls
    /\ Lowered =>
          /\ tr.mGlobalPixelCoord <=> (IsImages(compileOptions) /\ shader.pls # <<>>)
          /\ CountOp(root, {"pixelCoordDecl"}) = IF tr.mGlobalPixelCoord THEN 1 ELSE 0
          /\ ImageAccesses # {} => (tr.mGlobalPixelCoord /\ ~tr.assertFailed)
    /\ ~Lowered => CountOp(root, {"pixelCoordDecl"}) = 0
    /\ CountOp(mainBody, {"pixelCoord="}) =
          IF stage = "initialized" /\ tr.mGlobalPixelCoord THEN 1 ELSE 0
    /\ \A B \in AllBlocks : B # mainBody => CountOp(B, {"pixelCoord="}) = 0

\* Two PLS declarations were lowered to images: one coordinate declaration,
\* one initialization, and main() accesses the images.
C15_Witness ==
    /\ stage = "initialized"
    /\ IsImages(compileOptions)
    /\ Len(shader.pls) = 2
    /\ CountOp(root, {"pixelCoordDecl"}) = 1
    /\ CountOp(root, {"imageDecl"}) = 2
    /\ CountOp(mainBody, {"pixelCoord="}) = 1
    /\ ImageAccesses # {}

\* --------------------------------------- the statements of a lowered store
\* The statements that stand for a store to a PLS uniform of format fmt
\* under the image strategy, in order.
StoreStatements(fmt) ==
    <<"valueDecl">>
      \o (CASE fmt = "EiifRGBA8I" -> <<"clampAssign">>
            [] fmt = "EiifRGBA8UI" -> <<"minAssign">>
            [] OTHER -> <<>>)
      \o (CASE fmt = "EiifRGBA8" /\ Packed /\ compileOptions.passHighpToPackUnormSnormBuiltins ->
                  <<"workaroundHighpDecl">>
            [] fmt = "EiifRGBA8I" /\ Packed -> <<"maskAssign">>
            [] OTHER -> <<>>)
      \o <<"memoryBarrierImage", "imageStore", "memoryBarrierImage">>

ImageStoreOps == StoreHookOps \cup {"valueDecl"}

\* C16: under the image strategy, after the insertions are applied, the
\* block of every PLS store holds contiguously and in this order: the
\* declaration of the hoisted temporary, the clamp (integer 4x8 formats),
\* the precision-workaround temporary or the 8-bit mask (when packing needs
\* them), a memory barrier, the image write, a memory barrier; the barriers
\* are adjacent to the write, and the statements of several stores in one
\* block keep the order in which they were requested.
C16_StoreStatementsInOrder ==
    (IsImages(compileOptions) /\ Lowered) =>
       \A B \in AllBlocks :
          /\ \A j \in DOMAIN B :
                B[j].op = "imageStore" =>
                   LET expected == StoreStatements(PLSFormatOf(shader.fmtShift, B[j].b))
                       first == j - (Len(expected) - 2)
                   IN /\ first >= 1
                      /\ j + 1 <= Len(B)
                      /\ \A k \in DOMAIN expected :
                            /\ B[first + k - 1].op = expected[k]
                            /\ B[first + k - 1].var = B[j].var
                      /\ B[j - 1].op = "memoryBarrierImage"
                      /\ B[j + 1].op = "memoryBarrierImage"
                      /\ Cardinality({i \in DOMAIN B :
                                         B[i].op \in ImageStoreOps /\ B[i].var = B[j].var})
                            = Len(expected)
          /\ \A i \in DOMAIN B :
                B[i].op \in ImageStoreOps =>
                   \E j \in DOMAIN B : B[j].op = "imageStore" /\ B[j].var = B[i].var
          /\ \A i, j \in DOMAIN B :
                (B[i].op \in ImageStoreOps /\ B[j].op \in ImageStoreOps
                   /\ B[i].var < B[j].var) => i < j

\* main() holds two lowered stores to a packed signed 4x8 format, each with
\* its clamp and its mask.
C16_Witness ==
    /\ stage = "updated"
    /\ Packed
    /\ CountOp(mainBody, {"imageStore"}) = 2
    /\ CountOp(mainBody, {"clampAssign"}) = 2
    /\ CountOp(mainBody, {"maskAssign"}) = 2
    /\ CountOp(mainBody, {"memoryBarrierImage"}) = 4

notify_all_WakingOne(blocked) ==
    IF blocked = {} THEN {{}} ELSE {{i} : i \in blocked}

notify_all(blocked) == {blocked}

\* notify_one: one of the blocked threads, if any.
notify_one(blocked) ==
    IF blocked = {} THEN {{}} ELSE {{i} : i \in blocked}

\* The worker threads blocked on mCondVar.
BlockedWorkers == {i \in WorkerIds : mThreads[i].pc = "blocked"}

\* The threads blocked on the mCondition of the event of task t.
BlockedWaiters(t) ==
    {u \in WaiterIds : waiters[u].pc = "blocked" /\ waiters[u].event = t}

\* mThreads with the workers of the set woken.
Wake(woken) ==
    [i \in WorkerIds |-> IF i \in woken THEN [mThreads[i] EXCEPT !.pc = "lock"]
                         ELSE mThreads[i]]

\* The task posted next.
NextTask(t) == tasks[t] = "unposted" /\ \A s \in TaskIds : s < t => tasks[s] /= "unposted"

InitPool ==
    /\ root = <<>>
    /\ mainBody = <<>>
    /\ shader = [pls |-> <<>>, fmtShift |-> 0, outLoc |-> -2, outOp |-> "outDecl"]
    /\ compileOptions = Options("ImageStoreNativeFormats", "NotSupported", FALSE)
    /\ tr = NewTraverser
    /\ pc = "monomorphize"
    /\ cursor = 0
    /\ earlyFragmentTests = FALSE
    /\ stage = "parsed"
    /\ result = "none"
    /\ failed = "none"
    /\ trace = <<>>
    /\ px = NoPixel
    /\ registry = NoRegistry
    /\ \E poolClass \in {"AsyncWorkerPool", "DelegateWorkerPool"} : Constructed(poolClass)
    /\ create = NoCreate

\* ------------------------------------------------------------- the client
\* AsyncWorkerPool::postWorkerTask, the block under the lock_guard: push.
AsyncPostWorkerTask ==
    /\ pool = "AsyncWorkerPool"
    /\ client = "idle"
    /\ mMutex = Unlocked
    /\ \E t \in TaskIds :
          /\ NextTask(t)
          /\ mTaskQueue' = Append(mTaskQueue, t)
          /\ tasks' = [tasks EXCEPT ![t] = "queued"]
    /\ client' = "notify_one"
    /\ UNCHANGED <<hostVars, pool, mTerminated, mMutex, mThreads,
                   waitables, waiters, observed>>

\* AsyncWorkerPool::postWorkerTask: mCondVar.notify_one() and return.
AsyncPostNotifyOne ==
    /\ client = "notify_one"
    /\ \E woken \in notify_one(BlockedWorkers) : mThreads' = Wake(woken)
    /\ client' = "idle"
    /\ UNCHANGED <<hostVars, pool, mTerminated, mMutex, mTaskQueue,
                   tasks, waitables, waiters, observed>>

\* DelegateWorkerPool::postWorkerTask: the task is handed to the platform.
DelegatePostWorkerTask ==
    /\ pool = "DelegateWorkerPool"
    /\ client = "idle"
    /\ \E t \in TaskIds :
          /\ NextTask(t)
          /\ tasks' = [tasks EXCEPT ![t] = "queued"]
    /\ UNCHANGED <<hostVars, pool, mTerminated, mMutex, mTaskQueue,
                   mThreads, waitables, client, waiters, observed>>

\* ~AsyncWorkerPool, setting the flag without taking mMutex.
DestructorSetTerminated_Unlocked ==
    /\ pool = "AsyncWorkerPool"
    /\ client = "idle"
    /\ mTerminated' = TRUE
    /\ client' = "notify_all"
    /\ UNCHANGED <<hostVars, pool, mMutex, mTaskQueue, mThreads, tasks,
                   waitables, waiters, observed>>

\* ~AsyncWorkerPool, the block under the unique_lock: mTerminated = true.
DestructorSetTerminated ==
    /\ pool = "AsyncWorkerPool"
    /\ client = "idle"
    /\ mMutex = Unlocked
    /\ mTerminated' = TRUE
    /\ client' = "notify_all"
    /\ UNCHANGED <<hostVars, pool, mMutex, mTaskQueue, mThreads, tasks,
                   waitables, waiters, observed>>

\* ~AsyncWorkerPool: mCondVar.notify_all().
DestructorNotifyAll ==
    /\ client = "notify_all"
    /\ \E woken \in notify_all(BlockedWorkers) : mThreads' = Wake(woken)
    /\ client' = "join"
    /\ UNCHANGED <<hostVars, pool, mTerminated, mMutex, mTaskQueue,
                   tasks, waitables, waiters, observed>>

\* ~AsyncWorkerPool: the joins return once every thread has left threadLoop.
DestructorJoin ==
    /\ client = "join"
    /\ \A i \in WorkerIds : mThreads[i].pc = "returned"
    /\ client' = "destroyed"
    /\ UNCHANGED <<hostVars, pool, mTerminated, mMutex, mTaskQueue,
                   mThreads, tasks, waitables, waiters, observed>>

\* ------------------------------------------------------------ threadLoop
\* std::unique_lock<std::mutex> lock(mMutex) (or the lock taken again on
\* waking up) and the predicate !mTaskQueue.empty() || mTerminated evaluated
\* under it.  When the predicate holds: return if mTerminated, else take the
\* front task, and release the lock either way.  When it does not, the
\* thread is about to block and still holds the lock.
threadLoopCheck(i) ==
    /\ mThreads[i].pc = "lock"
    /\ mMutex = Unlocked
    /\ IF mTerminated
       THEN /\ mThreads' = [mThreads EXCEPT ![i].pc = "returned"]
            /\ UNCHANGED <<mMutex, mTaskQueue, tasks>>
       ELSE IF mTaskQueue /= <<>>
       THEN /\ mThreads' = [mThreads EXCEPT ![i] = [pc |-> "run", task |-> Head(mTaskQueue)]]
            /\ mTaskQueue' = Tail(mTaskQueue)
            /\ tasks' = [tasks EXCEPT ![Head(mTaskQueue)] = "running"]
            /\ UNCHANGED mMutex
       ELSE /\ mThreads' = [mThreads EXCEPT ![i].pc = "wait"]
            /\ mMutex' = Worker(i)
            /\ UNCHANGED <<mTaskQueue, tasks>>
    /\ UNCHANGED <<hostVars, pool, mTerminated, waitables, client,
                   waiters, observed>>

\* The predicate was false: the thread releases the lock and blocks on
\* mCondVar, in one step.
threadLoopWait(i) ==
    /\ mThreads[i].pc = "wait"
    /\ mThreads' = [mThreads EXCEPT ![i].pc = "blocked"]
    /\ mMutex' = Unlocked
    /\ UNCHANGED <<hostVars, pool, mTerminated, mTaskQueue, tasks,
                   waitables, client, waiters, observed>>

\* A blocked thread may wake up without a notification.
threadLoopSpuriousWakeup(i) ==
    /\ mThreads[i].pc = "blocked"
    /\ mThreads' = [mThreads EXCEPT ![i].pc = "lock"]
    /\ UNCHANGED <<hostVars, pool, mTerminated, mMutex, mTaskQueue,
                   tasks, waitables, client, waiters, observed>>

\* --------------------------------------------------------- running a task
\* The platform calls DelegateWorkerTask::RunTask for a task handed to it.
RunTask(t) ==
    /\ pool = "DelegateWorkerPool"
    /\ tasks[t] = "queued"
    /\ tasks' = [tasks EXCEPT ![t] = "running"]
    /\ UNCHANGED <<hostVars, pool, mTerminated, mMutex, mTaskQueue,
                   mThreads, waitables, client, waiters, observed>>

\* (*closure)() returns.
RunClosure(t) ==
    /\ tasks[t] = "running"
    /\ tasks' = [tasks EXCEPT ![t] = "finished"]
    /\ UNCHANGED <<hostVars, pool, mTerminated, mMutex, mTaskQueue,
                   mThreads, waitables, client, waiters, observed>>

\* markAsReady, called when the closure has returned: under the event's
\* mutex, mIsReady = true and mCondition.notify_all().  In threadLoop the
\* worker then starts its next iteration; RunTask deletes the task object.
markAsReady(t) ==
    /\ tasks[t] = "finished"
    /\ waitables[t].mMutex = Unlocked
    /\ waitables' = [waitables EXCEPT ![t].mIsReady = TRUE]
    /\ \E woken \in notify_all(BlockedWaiters(t)) :
          waiters' = [u \in WaiterIds |->
                         IF u \in woken THEN [waiters[u] EXCEPT !.pc = "lock"]
                         ELSE waiters[u]]
    /\ tasks' = [tasks EXCEPT ![t] = "ready"]
    /\ mThreads' = [i \in WorkerIds |->
                       IF mThreads[i].task = t THEN [pc |-> "lock", task |-> 0]
                       ELSE mThreads[i]]
    /\ UNCHANGED <<hostVars, pool, mTerminated, mMutex, mTaskQueue,
                   client, observed>>

\* ------------------------------------------------------ AsyncWaitableEvent
\* A thread calls wait() on the event postWorkerTask returned for task t.
wait(u) ==
    /\ waiters[u].pc = "idle"
    /\ \E t \in TaskIds :
          /\ tasks[t] /= "unposted"
          /\ waiters' = [waiters EXCEPT ![u] = [pc |-> "lock", event |-> t, slept |-> FALSE]]
    /\ UNCHANGED <<hostVars, pool, mTerminated, mMutex, mTaskQueue,
                   mThreads, tasks, waitables, client, observed>>

\* wait: std::unique_lock<std::mutex> lock(mMutex) (or the lock taken again
\* on waking up) and the predicate mIsReady evaluated under it.  When it
\* holds wait() returns and releases the lock; when it does not, the thread
\* is about to block and still holds the lock.
waitCheck(u) ==
    /\ waiters[u].pc = "lock"
    /\ waitables[waiters[u].event].mMutex = Unlocked
    /\ IF waitables[waiters[u].event].mIsReady
       THEN /\ waiters' = [waiters EXCEPT ![u].pc = "returned"]
            /\ UNCHANGED waitables
       ELSE /\ waiters' = [waiters EXCEPT ![u].pc = "wait"]
            /\ waitables' = [waitables EXCEPT ![waiters[u].event].mMutex = Waiter(u)]
    /\ UNCHANGED <<hostVars, pool, mTerminated, mMutex, mTaskQueue,
                   mThreads, tasks, client, observed>>

\* wait: the predicate was false: the thread releases the lock and blocks on
\* mCondition, in one step.
waitBlock(u) ==
    /\ waiters[u].pc = "wait"
    /\ waiters' = [waiters EXCEPT ![u].pc = "blocked", ![u].slept = TRUE]
    /\ waitables' = [waitables EXCEPT ![waiters[u].event].mMutex = Unlocked]
    /\ UNCHANGED <<hostVars, pool, mTerminated, mMutex, mTaskQueue,
                   mThreads, tasks, client, observed>>

\* A blocked thread may wake up without a notification.
waitSpuriousWakeup(u) ==
    /\ waiters[u].pc = "blocked"
    /\ waiters' = [waiters EXCEPT ![u].pc = "lock"]
    /\ UNCHANGED <<hostVars, pool, mTerminated, mMutex, mTaskQueue,
                   mThreads, tasks, waitables, client, observed>>

\* isReady() on the event of task t returns true: lock, read mIsReady, unlock.
isReady(u) ==
    /\ waiters[u].pc = "idle"
    /\ \E t \in TaskIds :
          /\ tasks[t] /= "unposted"
          /\ waitables[t].mMutex = Unlocked
          /\ waitables[t].mIsReady
          /\ observed' = observed \cup {t}
    /\ UNCHANGED <<hostVars, pool, mTerminated, mMutex, mTaskQueue,
                   mThreads, tasks, waitables, client, waiters>>

\* ------------------------------------------------------- specifications
\* The steps a thread takes once it can: those of a worker in threadLoop, of
\* the thread running a task, of a thread inside wait(), and of the client
\* inside postWorkerTask or the destructor.
WorkerStep(i) == threadLoopCheck(i) \/ threadLoopWait(i)
TaskStep == \E t \in TaskIds : RunTask(t) \/ RunClosure(t) \/ markAsReady(t)
WaiterStep(u) == waitCheck(u) \/ waitBlock(u)
ClientStep == AsyncPostNotifyOne \/ DestructorNotifyAll \/ DestructorJoin

NextPool ==
    \/ AsyncPostWorkerTask
    \/ AsyncPostNotifyOne
    \/ DelegatePostWorkerTask
    \/ DestructorSetTerminated
    \/ DestructorNotifyAll
    \/ DestructorJoin
    \/ \E i \in WorkerIds : threadLoopCheck(i)
    \/ \E i \in WorkerIds : threadLoopWait(i)
    \/ \E i \in WorkerIds : threadLoopSpuriousWakeup(i)
    \/ \E t \in TaskIds : RunTask(t)
    \/ \E t \in TaskIds : RunClosure(t)
    \/ \E t \in TaskIds : markAsReady(t)
    \/ \E u \in WaiterIds : wait(u)
    \/ \E u \in WaiterIds : waitCheck(u)
    \/ \E u \in WaiterIds : waitBlock(u)
    \/ \E u \in WaiterIds : waitSpuriousWakeup(u)
    \/ \E u \in WaiterIds : isReady(u)

SpecPool == InitPool /\ [][NextPool]_vars

\* Fair scheduling: a thread whose next step stays possible takes it, and
\* every closure returns.  markAsReady needs the event's mutex, which
\* waiting threads can take again and again: it gets the mutex if the mutex
\* is free again and again (strong fairness; the tasks being finitely many,
\* one condition for all of them).  Posting, destroying, calling wait() or
\* isReady() and waking up without a notification are never forced.
FairSpecPool ==
    /\ SpecPool
    /\ \A i \in WorkerIds : WF_vars(WorkerStep(i))
    /\ SF_vars(TaskStep)
    /\ \A u \in WaiterIds : WF_vars(WaiterStep(u))
    /\ WF_vars(ClientStep)

\* The closure of task t has returned.
ClosureFinished(t) == tasks[t] \in {"finished", "ready"}

\* ------------------------------------------------------- waitable events
\* C18: for the event of a task posted to an AsyncWorkerPool or a
\* DelegateWorkerPool: a wait() that has returned, an isReady() that has
\* returned true and a set mIsReady all imply that markAsReady has run,
\* which implies that the task's closure has returned; a ready event stays
\* ready; and no thread is blocked in wait() on an event that is ready,
\* whether it called wait() before or after markAsReady and however many
\* threads wait.
C18_WaitReturnsAfterClosure ==
    /\ \A u \in WaiterIds :
          /\ waiters[u].pc = "returned" => waitables[waiters[u].event].mIsReady
          /\ waiters[u].pc = "blocked" => ~waitables[waiters[u].event].mIsReady
    /\ \A t \in observed : waitables[t].mIsReady
    /\ \A t \in TaskIds : waitables[t].mIsReady => tasks[t] = "ready" /\ ClosureFinished(t)

\* Every waiting thread has returned from wait() on the event of task 1:
\* the first had blocked before markAsReady ran, the last never blocked
\* (isReady() had returned true before it called wait()).
C18_Witness ==
    /\ \A u \in WaiterIds : waiters[u].pc = "returned" /\ waiters[u].event = 1
    /\ waiters[1].slept
    /\ ~waiters[NumWaiters].slept
    /\ tasks[1] = "ready"
    /\ 1 \in observed

\* ------------------------------------------------------ pool destruction
\* C19: under fair scheduling and closures that return, a destructor of an
\* AsyncWorkerPool that has set mTerminated (run by the client, which is no
\* worker of the pool) returns: every worker, blocked on mCondVar, about to
\* block, woken or running a task, leaves threadLoop, so every join returns.
C19_DestructorTerminates == (client \in {"notify_all", "join"}) ~> (client = "destroyed")

\* The destructor has returned: every worker has left threadLoop, one of
\* them after finishing the task it was running.
C19_Witness ==
    /\ client = "destroyed"
    /\ mTerminated
    /\ \A i \in WorkerIds : mThreads[i].pc = "returned"
    /\ tasks[1] = "ready"

CreateInputs ==
    [numThreads : 0 .. NumThreads,
     ANGLE_DELEGATE_WORKERS : BOOLEAN,
     ANGLE_STD_ASYNC_WORKERS : BOOLEAN,
     postWorkerTask : BOOLEAN,
     hardware_concurrency : 0 .. NumThreads]

\* WorkerThreadPool::Create(numThreads): the class of the pool it returns
\* and, for an AsyncWorkerPool, the argument of its constructor.
Create(in) ==
    LET multithreaded == in.numThreads /= 1
        hasPostWorkerTaskImpl == in.postWorkerTask
    IN IF in.ANGLE_DELEGATE_WORKERS /\ hasPostWorkerTaskImpl /\ multithreaded
       THEN [class |-> "DelegateWorkerPool", numThreads |-> 0]
       ELSE IF in.ANGLE_STD_ASYNC_WORKERS /\ multithreaded
       THEN [class |-> "AsyncWorkerPool",
             numThreads |-> IF in.numThreads = 0 THEN in.hardware_concurrency
                            ELSE in.numThreads]
       ELSE [class |-> "SingleThreadedWorkerPool", numThreads |-> 0]

\* isAsync() of a pool of the class.
isAsync(poolClass) == poolClass /= "SingleThreadedWorkerPool"

\* The event a SingleThreadedWorkerPool returns: isReady() is true and wait()
\* returns at once.
WaitableEventDone == [class |-> "WaitableEventDone"]

InitCreate ==
    /\ root = <<>>
    /\ mainBody = <<>>
    /\ shader = [pls |-> <<>>, fmtShift |-> 0, outLoc |-> -2, outOp |-> "outDecl"]
    /\ compileOptions = Options("ImageStoreNativeFormats", "NotSupported", FALSE)
    /\ tr = NewTraverser
    /\ pc = "monomorphize"
    /\ cursor = 0
    /\ earlyFragmentTests = FALSE
    /\ stage = "parsed"
    /\ result = "none"
    /\ failed = "none"
    /\ trace = <<>>
    /\ px = NoPixel
    /\ registry = NoRegistry
    /\ Constructed("null")
    /\ \E in \in CreateInputs :
          create = [pc |-> "call", in |-> in, asserted |-> FALSE]

\* pool = WorkerThreadPool::Create(numThreads).  The constructor of an
\* AsyncWorkerPool starts numThreads threads; its ASSERT(numThreads != 0)
\* fails for 0 and, where assertions are compiled out, the pool has no thread.
CreatePool ==
    /\ create.pc = "call"
    /\ LET made == Create(create.in)
       IN /\ pool' = made.class
          /\ mThreads' = [i \in 1 .. made.numThreads |-> [pc |-> "lock", task |-> 0]]
          /\ create' = [create EXCEPT
                           !.pc = "returned",
                           !.asserted = made.class = "AsyncWorkerPool" /\ made.numThreads = 0]
    /\ UNCHANGED <<passVars, px, registry, mTerminated, mMutex, mTaskQueue, tasks,
                   waitables, client, waiters, observed, posters, history, owners>>

\* SingleThreadedWorkerPool::postWorkerTask: (*task)() on the calling thread,
\* then a WaitableEventDone is returned.
SingleThreadedPostWorkerTask ==
    /\ pool = "SingleThreadedWorkerPool"
    /\ client = "idle"
    /\ \E t \in TaskIds :
          /\ NextTask(t)
          /\ tasks' = [tasks EXCEPT ![t] = "finished"]
          /\ waitables' = [waitables EXCEPT ![t] = WaitableEventDone]
    /\ UNCHANGED <<hostVars, pool, mTerminated, mMutex, mTaskQueue, mThreads, client,
                   waiters, observed>>

\* WaitableEventDone::wait returns without blocking.
WaitableEventDoneWait(u) ==
    /\ waiters[u].pc = "idle"
    /\ \E t \in TaskIds :
          /\ waitables[t] = WaitableEventDone
          /\ waiters' = [waiters EXCEPT ![u] = [pc |-> "returned", event |-> t, slept |-> FALSE]]
    /\ UNCHANGED <<hostVars, pool, mTerminated, mMutex, mTaskQueue, mThreads, tasks,
                   waitables, client, observed>>

\* WaitableEventDone::isReady returns true.
WaitableEventDoneIsReady(u) ==
    /\ waiters[u].pc = "idle"
    /\ \E t \in TaskIds :
          /\ waitables[t] = WaitableEventDone
          /\ observed' = observed \cup {t}
    /\ UNCHANGED <<hostVars, pool, mTerminated, mMutex, mTaskQueue, mThreads, tasks,
                   waitables, client, waiters>>

NextCreate ==
    \/ CreatePool
    \/ SingleThreadedPostWorkerTask
    \/ \E u \in WaiterIds : WaitableEventDoneWait(u)
    \/ \E u \in WaiterIds : WaitableEventDoneIsReady(u)

SpecCreate == InitCreate /\ [][NextCreate]_vars

\* An asynchronous implementation is available: the thread pool is compiled
\* in, or delegation is and the platform provides postWorkerTask.
AsyncAvailable(in) ==
    in.ANGLE_STD_ASYNC_WORKERS \/ (in.ANGLE_DELEGATE_WORKERS /\ in.postWorkerTask)

\* C21: Create never returns null; for numThreads = 1, and whenever no
\* asynchronous implementation is available, it returns the synchronous
\* pool (isAsync() false; a posted closure has returned and the event is
\* ready when postWorkerTask returns; wait() never blocks); for
\* numThreads /= 1 with an asynchronous implementation available the pool
\* reports isAsync() true and an AsyncWorkerPool has at least one thread.
C21_CreateContract ==
    create.pc = "returned" =>
       /\ pool \in {"SingleThreadedWorkerPool", "AsyncWorkerPool", "DelegateWorkerPool"}
       /\ (create.in.numThreads = 1 \/ ~AsyncAvailable(create.in)) =>
             /\ pool = "SingleThreadedWorkerPool"
             /\ ~isAsync(pool)
       /\ \A t \in TaskIds : tasks[t] /= "unposted" /\ ~isAsync(pool) =>
             /\ tasks[t] = "finished"
             /\ waitables[t] = WaitableEventDone
       /\ \A u \in WaiterIds : ~waiters[u].slept /\ waiters[u].pc \in {"idle", "returned"}
       /\ (create.in.numThreads /= 1 /\ AsyncAvailable(create.in)) =>
             /\ isAsync(pool)
             /\ pool = "AsyncWorkerPool" => Len(mThreads) >= 1

\* -------------------------------------------------- replacement images
\* The 4x8-bit PLS formats and the 32-bit image format each is packed into.
PackedImageFormat(fmt) ==
    CASE fmt = "EiifRGBA8" -> "EiifR32UI"
      [] fmt = "EiifRGBA8I" -> "EiifR32I"
      [] fmt = "EiifRGBA8UI" -> "EiifR32UI"
      [] OTHER -> fmt

\* The conversions attached to the lowered image accesses of binding b: of
\* the imageLoad expressions and of the values handed to imageStore.
ConversionsOf(b) ==
    UNION {{B[k].val.aux : k \in {j \in DOMAIN B :
                                     \/ B[j].op = "imageStore" /\ B[j].b = b
                                     \/ B[j].val.op = "imageLoad" /\ B[j].val.b = b}} :
           B \in AllBlocks}

\* C22: image strategy, every PLS format, with and without R32 packing: the
\* replacement image's format differs from the PLS format exactly when
\* packing is required and the format is a 4x8-bit one (rgba8 -> r32ui,
\* rgba8i -> r32i, rgba8ui -> r32ui, precision high); otherwise format and
\* precision are kept.  Pack and unpack conversions are emitted exactly for
\* those images, so the condition of ASSERT(needsR32Packing()) holds
\* wherever it is evaluated.  The binding is kept; the image is coherent and
\* restrict, neither readonly nor writeonly, and rasterOrdered iff the
\* synchronization type is RasterizerOrderViews_D3D.
C22_ImageReplacementFormat ==
    \A b \in DOMAIN tr.mImages :
       LET image2D == tr.mImages[b]
           plsFormat == PLSFormatOf(shader.fmtShift, b)
           packs == Packed /\ plsFormat \in {"EiifRGBA8", "EiifRGBA8I", "EiifRGBA8UI"}
       IN /\ IsImages(compileOptions)
          /\ image2D.binding = b
          /\ (image2D.imageInternalFormat /= plsFormat) <=> packs
          /\ packs => /\ image2D.imageInternalFormat = PackedImageFormat(plsFormat)
                      /\ image2D.precision = "EbpHigh"
          /\ ~packs => /\ image2D.imageInternalFormat = plsFormat
                       /\ image2D.precision = PLSPrecisionOf(plsFormat)
          /\ image2D.coherent /\ image2D.restrictQualifier
          /\ ~image2D.readonly /\ ~image2D.writeonly
          /\ image2D.rasterOrdered <=>
                compileOptions.fragmentSynchronizationType = "RasterizerOrderViews_D3D"
          /\ Lowered =>
                \A conversion \in ConversionsOf(b) :
                   /\ conversion /= "UNREACHABLE"
                   /\ (conversion /= "") <=> packs
                   /\ (conversion /= "") => needsR32Packing(compileOptions)

\* A low-precision rgba8 plane on binding 0 was replaced by a high-precision
\* rasterizer-ordered r32ui image, and its store packs and its load unpacks.
C22_Witness ==
    /\ Lowered
    /\ Packed
    /\ compileOptions.fragmentSynchronizationType = "RasterizerOrderViews_D3D"
    /\ 0 \in DOMAIN tr.mImages
    /\ PLSFormatOf(shader.fmtShift, 0) = "EiifRGBA8"
    /\ tr.mImages[0].imageInternalFormat = "EiifR32UI"
    /\ tr.mImages[0].precision = "EbpHigh"
    /\ tr.mImages[0].rasterOrdered
    /\ ConversionsOf(0) = {"packUnorm4x8", "unpackUnorm4x8"}

\* ------------------------------------------------------------------------
\* One pixel running the main() lowered for framebuffer fetch: preload,
\* the shader's store (T valueVar = v; accessVar = valueVar) and load of
\* binding 0 in either order, flush.

FetchOptions == {Options("FramebufferFetch", sync, FALSE) :
                    sync \in {"NotSupported", "Automatic"}}

\* The shader's main(): store then load, or load then store.
FetchShaderMains == {PixelShaderMain, <<InitLoad(200, 0), StoreConst(100, 0)>>}

\* The traverser after root->traverse() over the shader with main() main.
FetchShaderTraversed(fmt, main, opts) ==
    LET t1 == visitDeclaration(NewTraverser, PixelShaderRoot(fmt)[1], 1, opts)
        t2 == traverseStatement(t1, main[1], 1, opts, FormatShift(fmt))
    IN traverseStatement(t2, main[2], 2, opts, FormatShift(fmt))

\* Component values of the stored vector and of the attachment before the
\* draw: 0 and 1, which the expansion fills in, and others.
StoredComponentValues == {0, 1, 5}
AttachmentContents == {<<0, 0, 0, 1>>, <<6, 7, 8, 9>>, <<1, 1, 0, 0>>}

InitFetch ==
    \E fmt \in Range(Formats) : \E main \in FetchShaderMains : \E opts \in FetchOptions :
       LET t == FetchShaderTraversed(fmt, main, opts)
           tree == updateTree(t, [root |-> PixelShaderRoot(fmt), main |-> main])
           setup == injectSetupCode(t, tree.main, 0, opts)
       IN /\ root = tree.root
          /\ mainBody = injectFinalizeCode(t, setup, Len(setup), opts)
          /\ shader = [pls |-> <<0>>, fmtShift |-> FormatShift(fmt), outLoc |-> -2,
                       outOp |-> "outDecl"]
          /\ compileOptions = opts
          /\ tr = t
          /\ pc = "globalPixelCoord"
          /\ cursor = Len(PixelShaderRoot(fmt)) + Len(main)
          /\ earlyFragmentTests = FALSE
          /\ stage = "finalized"
          /\ result = "none"
          /\ failed = "none"
          /\ trace = <<>>
          /\ \E r, g, b, a \in StoredComponentValues : \E content \in AttachmentContents :
                px = [pc |-> 1, fmt |-> fmt, in |-> <<r, g, b, a>>,
                      fragmentVarBefore |-> content, fragmentVar |-> content,
                      plsVar |-> <<>>, accessVar |-> <<>>, out |-> <<>>,
                      preloaded |-> FALSE, stored |-> FALSE, loaded |-> FALSE,
                      loadedStore |-> FALSE, flushed |-> FALSE]
          /\ registry = NoRegistry
          /\ Constructed("AsyncWorkerPool")
          /\ create = NoCreate

\* The attachment pair of the binding the statement under execution names.
AttachmentOf(b) == tr.mPLSAttachments[b]

\* GLSL: v.x, v.xy, ... of a vector when PLSAttachment::swizzle wrapped it
\* in a swizzle of the scratch variable's size, the vector itself otherwise.
SwizzleRead(aux, attachment, v) ==
    IF aux = "swizzle" THEN SubSeq(v, 1, attachment.accessNominalSize) ELSE v

\* GLSL: assignment of value to the same swizzle of lvalue, which writes the
\* swizzled components and no other.
SwizzleWrite(aux, attachment, lvalue, value) ==
    IF aux = "swizzle"
    THEN [i \in DOMAIN lvalue |->
             IF i <= attachment.accessNominalSize THEN value[i] ELSE lvalue[i]]
    ELSE value

\* accessVar = fragmentVar[.x]
ExecPreload ==
    /\ AtStatement("accessVar=fragmentVar")
    /\ LET s == mainBody[px.pc]
       IN px' = [px EXCEPT !.pc = @ + 1, !.preloaded = TRUE,
                           !.accessVar = SwizzleRead(s.val.aux, AttachmentOf(s.b),
                                                     px.fragmentVar)]
    /\ UNCHANGED <<passVars, registry, poolVars>>

\* accessVar = valueVar[.x]
ExecAssignAccessVar ==
    /\ AtStatement("assignAccessVar")
    /\ LET s == mainBody[px.pc]
       IN px' = [px EXCEPT !.pc = @ + 1, !.stored = TRUE,
                           !.accessVar = SwizzleRead(s.val.aux, AttachmentOf(s.b),
                                                     px.plsVar)]
    /\ UNCHANGED <<passVars, registry, poolVars>>

\* x = accessVar, or x = vec4(accessVar, 0, 0, 1)
ExecExpandAccessVar ==
    /\ AtStatement("init")
    /\ mainBody[px.pc].val.op = "expandAccessVar"
    /\ px' = [px EXCEPT !.pc = @ + 1, !.loaded = TRUE, !.loadedStore = px.stored,
                        !.out = IF mainBody[px.pc].val.aux = "expand(r,0,0,1)"
                                THEN <<px.accessVar[1], 0, 0, 1>>
                                ELSE px.accessVar]
    /\ UNCHANGED <<passVars, registry, poolVars>>

\* fragmentVar[.x] = accessVar
ExecFlush ==
    /\ AtStatement("fragmentVar=accessVar")
    /\ LET s == mainBody[px.pc]
       IN px' = [px EXCEPT !.pc = @ + 1, !.flushed = TRUE,
                           !.fragmentVar = SwizzleWrite(s.val.aux, AttachmentOf(s.b),
                                                        @, px.accessVar)]
    /\ UNCHANGED <<passVars, registry, poolVars>>

NextFetch ==
    \/ ExecPreload
    \/ ExecValueDecl
    \/ ExecAssignAccessVar
    \/ ExecExpandAccessVar
    \/ ExecFlush

SpecFetch == InitFetch /\ [][NextFetch]_vars

SingleComponent(fmt) == fmt \in {"EiifR32F", "EiifR32UI"}

\* The base numeric kind of a PLS format's components.
BaseKind(fmt) ==
    CASE fmt \in {"EiifRGBA8", "EiifR32F"} -> "EbtFloat"
      [] fmt = "EiifRGBA8I" -> "EbtInt"
      [] fmt \in {"EiifRGBA8UI", "EiifR32UI"} -> "EbtUInt"

\* (v.x, 0, 0, 1) for a single-component format, v otherwise.
Expanded(fmt, v) == IF SingleComponent(fmt) THEN <<v[1], 0, 0, 1>> ELSE v

\* C23: framebuffer-fetch strategy: a lowered store of the 4-component value
\* v followed, with no store in between, by a lowered load of the same
\* binding yields v for the 4-component formats and (v.x, 0, 0, 1) for the
\* single-component ones.  The scratch variable has the format's component
\* count (1 or 4), the attachment variable has 4 components of the same base
\* numeric kind.  For a single-component format the preload reads component
\* x of the attachment alone and the flush writes component x alone: the
\* other components of the attachment stay as they were.
C23_FetchStoreLoad ==
    LET attachment == tr.mPLSAttachments[0]
        single == SingleComponent(px.fmt)
        before == px.fragmentVarBefore
    IN /\ attachment.accessNominalSize = (IF single THEN 1 ELSE 4)
       /\ attachment.fragmentNominalSize = 4
       /\ attachment.accessBasicType = BaseKind(px.fmt)
       /\ attachment.fragmentBasicType = BaseKind(px.fmt)
       /\ Len(px.fragmentVar) = attachment.fragmentNominalSize
       /\ px.preloaded => Len(px.accessVar) = attachment.accessNominalSize
       /\ (px.preloaded /\ ~px.stored) =>
             px.accessVar = (IF single THEN <<before[1]>> ELSE before)
       /\ px.loadedStore => px.out = Expanded(px.fmt, px.in)
       /\ (px.loaded /\ ~px.loadedStore) => px.out = Expanded(px.fmt, before)
       /\ ~px.flushed => px.fragmentVar = before
       /\ px.flushed =>
             px.fragmentVar = (IF single
                               THEN <<px.in[1], before[2], before[3], before[4]>>
                               ELSE px.in)

\* An r32ui plane holding (6, 7, 8, 9) was preloaded, (5, 1, 5, 0) was stored
\* and loaded back as (5, 0, 0, 1), and the flush left (5, 7, 8, 9).
C23_Witness ==
    /\ px.fmt = "EiifR32UI"
    /\ px.preloaded /\ px.loadedStore /\ px.flushed
    /\ px.in = <<5, 1, 5, 0>>
    /\ px.fragmentVarBefore = <<6, 7, 8, 9>>
    /\ px.accessVar = <<5>>
    /\ px.out = <<5, 0, 0, 1>>
    /\ px.fragmentVar = <<5, 7, 8, 9>>

\* ============================================ the task queue, step by step
\* AsyncWorkerPool with its locks taken and released in steps of their own,
\* and MaxPosts calls of postWorkerTask made by threads of their own.  Call
\* c posts task c.  Positions of a poster: "lock" (153), "push" (154, owns
\* mMutex), "notify" (156), "returned".  Positions of a worker: "lock" (166,
\* or waking up inside wait), "wait" (167, owns mMutex), "blocked", "pop"
\* (168-173, owns mMutex), "closure" (180), "markAsReady" (181), "end" (182,
\* the local task goes out of scope), "returned".

\* The variables no step of the queue changes.
queueHost == <<passVars, px, registry, create, pool, client, waiters, observed>>

InitQueueWith(o) ==
    /\ root = <<>>
    /\ mainBody = <<>>
    /\ shader = [pls |-> <<>>, fmtShift |-> 0, outLoc |-> -2, outOp |-> "outDecl"]
    /\ compileOptions = Options("ImageStoreNativeFormats", "NotSupported", FALSE)
    /\ tr = NewTraverser
    /\ pc = "monomorphize"
    /\ cursor = 0
    /\ earlyFragmentTests = FALSE
    /\ stage = "parsed"
    /\ result = "none"
    /\ failed = "none"
    /\ trace = <<>>
    /\ px = NoPixel
    /\ registry = NoRegistry
    /\ create = NoCreate
    /\ pool = "AsyncWorkerPool"
    /\ mTerminated = FALSE
    /\ mMutex = Unlocked
    /\ mTaskQueue = <<>>
    /\ \E numThreads \in 1 .. NumThreads :
          mThreads = [i \in WorkerIds |->
                         [pc |-> IF i <= numThreads THEN "lock" ELSE "absent", task |-> 0]]
    /\ tasks = [c \in PostIds |-> "unposted"]
    /\ waitables = [c \in PostIds |-> [mMutex |-> Unlocked, mIsReady |-> FALSE]]
    /\ client = "idle"
    /\ waiters = [u \in WaiterIds |-> [pc |-> "idle", event |-> 0, slept |-> FALSE]]
    /\ observed = {}
    /\ posters = [c \in PostIds |-> "lock"]
    /\ history = NoHistory
    /\ owners = o

InitQueue == InitQueueWith(NoOwners)

\* Shared ownership: the holder's reference to the event of call c is
\* released; the event whose last reference went is destroyed and with it
\* the reference to the pool it held.
ReleaseEvent(o, c, holder) ==
    LET left == o.event[c] \ {holder}
    IN [o EXCEPT !.event[c] = left,
                 !.pool = IF left = {} THEN @ \ {Waitable(c)} ELSE @]

\* The thread that released the last reference to the pool enters
\* ~AsyncWorkerPool.
Released(o, thread) ==
    IF o.pool = {} /\ o.destructor.pc = "none"
    THEN [o EXCEPT !.destructor = [pc |-> "lock", thread |-> thread]]
    ELSE o

\* history after thread self has read or written mTaskQueue.
Touched(h, self) == [h EXCEPT !.unguarded = @ \/ mMutex /= self]

\* postWorkerTask taking no lock.
postWorkerTaskLock_NoLock(c) ==
    /\ posters[c] = "lock"
    /\ posters' = [posters EXCEPT ![c] = "push"]
    /\ owners' = [owners EXCEPT !.event[c] = @ \cup {Poster(c)}]
    /\ UNCHANGED <<queueHost, mTerminated, mMutex, mTaskQueue, mThreads, tasks,
                   waitables, history>>

\* postWorkerTask: waitable = std::make_shared<AsyncWaitableEvent>() and
\* std::lock_guard<std::mutex> lock(mMutex)
postWorkerTaskLock(c) ==
    /\ posters[c] = "lock"
    /\ mMutex = Unlocked
    /\ mMutex' = Poster(c)
    /\ posters' = [posters EXCEPT ![c] = "push"]
    /\ owners' = [owners EXCEPT !.event[c] = @ \cup {Poster(c)}]
    /\ UNCHANGED <<queueHost, mTerminated, mTaskQueue, mThreads, tasks, waitables,
                   history>>

\* postWorkerTask: mTaskQueue.push(...) and the end of the lock's scope.
postWorkerTaskPush(c) ==
    /\ posters[c] = "push"
    /\ mTaskQueue' = Append(mTaskQueue, c)
    /\ tasks' = [tasks EXCEPT ![c] = "queued"]
    /\ history' = [Touched(history, Poster(c)) EXCEPT !.enqueued = Append(@, c)]
    /\ mMutex' = IF mMutex = Poster(c) THEN Unlocked ELSE mMutex
    /\ posters' = [posters EXCEPT ![c] = "notify"]
    /\ owners' = [owners EXCEPT !.event[c] = @ \cup {Queue}]
    /\ UNCHANGED <<queueHost, mTerminated, mThreads, waitables>>

\* postWorkerTask: mCondVar.notify_one() and return, to the caller or to
\* WorkerThreadPool::PostWorkerTask.
postWorkerTaskNotify(c) ==
    /\ posters[c] = "notify"
    /\ \E woken \in notify_one(BlockedWorkers) : mThreads' = Wake(woken)
    /\ posters' = [posters EXCEPT ![c] = IF owners.via = "PostWorkerTask"
                                         THEN "setWorkerThreadPool" ELSE "returned"]
    /\ UNCHANGED <<queueHost, mTerminated, mMutex, mTaskQueue, tasks, waitables,
                   history, owners>>

\* threadLoop: std::unique_lock<std::mutex> lock(mMutex), or the lock taken
\* again by a thread that woke up inside mCondVar.wait.
threadLoopLock(i) ==
    /\ mThreads[i].pc = "lock"
    /\ mMutex = Unlocked
    /\ mMutex' = Worker(i)
    /\ mThreads' = [mThreads EXCEPT ![i].pc = "wait"]
    /\ UNCHANGED <<queueHost, mTerminated, mTaskQueue, tasks, waitables, posters,
                   history, owners>>

\* mCondVar.wait(lock, pred): pred is evaluated; when it is false the thread
\* releases the lock and blocks, as one step.
threadLoopPredicate(i) ==
    /\ mThreads[i].pc = "wait"
    /\ history' = Touched(history, Worker(i))
    /\ IF mTaskQueue /= <<>> \/ mTerminated
       THEN /\ mThreads' = [mThreads EXCEPT ![i].pc = "pop"]
            /\ UNCHANGED mMutex
       ELSE /\ mThreads' = [mThreads EXCEPT ![i].pc = "blocked"]
            /\ mMutex' = Unlocked
    /\ UNCHANGED <<queueHost, mTerminated, mTaskQueue, tasks, waitables, posters, owners>>

\* if (mTerminated) return; task = mTaskQueue.front(); mTaskQueue.pop(); and
\* the end of the lock's scope.
threadLoopPop(i) ==
    /\ mThreads[i].pc = "pop"
    /\ mMutex' = Unlocked
    /\ IF mTerminated
       THEN /\ mThreads' = [mThreads EXCEPT ![i].pc = "returned"]
            /\ UNCHANGED <<mTaskQueue, tasks, history, owners>>
       ELSE LET task == Head(mTaskQueue)
            IN /\ mThreads' = [mThreads EXCEPT ![i] = [pc |-> "closure", task |-> task]]
               /\ owners' = [owners EXCEPT !.event[task] = (@ \cup {Worker(i)}) \ {Queue}]
               /\ mTaskQueue' = Tail(mTaskQueue)
               /\ tasks' = [tasks EXCEPT ![task] = "running"]
               /\ history' = [Touched(history, Worker(i)) EXCEPT
                                 !.dequeued = Append(@, task),
                                 !.poppedBy[task] = Append(@, i)]
    /\ UNCHANGED <<queueHost, mTerminated, waitables, posters>>

\* (*closure)() is called and returns.
threadLoopClosure(i) ==
    /\ mThreads[i].pc = "closure"
    /\ mThreads' = [mThreads EXCEPT ![i].pc = "markAsReady"]
    /\ tasks' = [tasks EXCEPT ![mThreads[i].task] = "finished"]
    /\ history' = [history EXCEPT !.ranBy[mThreads[i].task] = Append(@, i)]
    /\ UNCHANGED <<queueHost, mTerminated, mMutex, mTaskQueue, waitables, posters, owners>>

\* waitable->markAsReady(): mIsReady = true under the event's mutex.
threadLoopMarkAsReady(i) ==
    /\ mThreads[i].pc = "markAsReady"
    /\ LET task == mThreads[i].task
       IN /\ waitables[task].mMutex = Unlocked
          /\ waitables' = [waitables EXCEPT ![task].mIsReady = TRUE]
          /\ history' = [history EXCEPT
                            !.readyBy[task] = Append(@, i),
                            !.readyEarly = @ \/ tasks[task] /= "finished"]
          /\ tasks' = [tasks EXCEPT ![task] = "ready"]
    /\ mThreads' = [mThreads EXCEPT ![i].pc = "end"]
    /\ UNCHANGED <<queueHost, mTerminated, mMutex, mTaskQueue, posters, owners>>

\* The end of the loop body: the local task is destroyed, which releases
\* its reference to the event, and the next iteration starts, unless the
\* release made this thread enter ~AsyncWorkerPool.
threadLoopEnd(i) ==
    /\ mThreads[i].pc = "end"
    /\ owners' = Released(ReleaseEvent(owners, mThreads[i].task, Worker(i)), Worker(i))
    /\ mThreads' = [mThreads EXCEPT ![i] =
                       [pc |-> IF owners'.destructor.thread = Worker(i)
                               THEN "~AsyncWorkerPool" ELSE "lock",
                        task |-> 0]]
    /\ UNCHANGED <<queueHost, mTerminated, mMutex, mTaskQueue, tasks, waitables,
                   posters, history>>

NextQueue ==
    \/ \E c \in PostIds : postWorkerTaskLock(c)
    \/ \E c \in PostIds : postWorkerTaskPush(c)
    \/ \E c \in PostIds : postWorkerTaskNotify(c)
    \/ \E i \in WorkerIds : threadLoopLock(i)
    \/ \E i \in WorkerIds : threadLoopPredicate(i)
    \/ \E i \in WorkerIds : threadLoopSpuriousWakeup(i)
    \/ \E i \in WorkerIds : threadLoopPop(i)
    \/ \E i \in WorkerIds : threadLoopClosure(i)
    \/ \E i \in WorkerIds : threadLoopMarkAsReady(i)
    \/ \E i \in WorkerIds : threadLoopEnd(i)

SpecQueue == InitQueue /\ [][NextQueue]_vars

\* s is the start of t.
IsPrefix(s, t) == Len(s) <= Len(t) /\ s = SubSeq(t, 1, Len(s))

\* C24: AsyncWorkerPool with one worker thread or more and concurrent calls
\* of postWorkerTask, in every interleaving: the queue is read and modified
\* by the thread that owns mMutex only; a task is popped by one worker
\* exactly once it has left the queue and by none before; its closure is run
\* at most once, by the worker that popped it; the tasks are popped in the
\* order they were pushed; the event of a task is marked ready by the worker
\* that ran its closure, after the closure has returned.  Once every call
\* has returned and every worker is blocked, the queue is empty and every
\* event is ready.
C24_QueueDiscipline ==
    /\ ~history.unguarded
    /\ IsPrefix(history.dequeued, history.enqueued)
    /\ history.enqueued = history.dequeued \o mTaskQueue
    /\ \A c \in PostIds :
          /\ Len(history.poppedBy[c]) <= 1
          /\ tasks[c] \in {"running", "finished", "ready"} <=> Len(history.poppedBy[c]) = 1
          /\ tasks[c] = "queued" <=> c \in Range(mTaskQueue)
          /\ Len(history.ranBy[c]) <= 1
          /\ tasks[c] \in {"finished", "ready"} <=> Len(history.ranBy[c]) = 1
          /\ history.ranBy[c] /= <<>> => history.ranBy[c] = history.poppedBy[c]
          /\ Len(history.readyBy[c]) <= 1
          /\ history.readyBy[c] /= <<>> => history.readyBy[c] = history.ranBy[c]
          /\ waitables[c].mIsReady <=> history.readyBy[c] /= <<>>
    /\ ~history.readyEarly
    /\ \A i, j \in WorkerIds :
          (i /= j /\ mThreads[i].task /= 0) => mThreads[i].task /= mThreads[j].task
    /\ ((\A c \in PostIds : posters[c] = "returned")
           /\ (\A i \in WorkerIds : mThreads[i].pc \in {"blocked", "absent"})) =>
          /\ mTaskQueue = <<>>
          /\ \A c \in PostIds : waitables[c].mIsReady

\* Three calls pushed their tasks in the order 3, 1, 2; two workers popped
\* them in that order, worker 2 the first and the last, and every event is
\* ready.
C24_Witness ==
    /\ history.enqueued = <<3, 1, 2>>
    /\ history.dequeued = <<3, 1, 2>>
    /\ history.poppedBy = <<<<1>>, <<2>>, <<2>>>>
    /\ history.readyBy = <<<<1>>, <<2>>, <<2>>>>
    /\ \A c \in PostIds : waitables[c].mIsReady /\ posters[c] = "returned"
    /\ \A i \in WorkerIds : mThreads[i].pc = "blocked"

\* ================================================== who destroys the pool
\* Tasks posted with WorkerThreadPool::PostWorkerTask(pool, task).  The
\* event keeps the shared_ptr to the pool that setWorkerThreadPool gives it
\* until it is destroyed.  Each posting thread holds a reference to the
\* pool, and after the call one to the event; it drops them when it likes.
\* The thread that releases the last reference to the pool runs
\* ~AsyncWorkerPool.

InitOwner ==
    InitQueueWith([via |-> "PostWorkerTask",
                   pool |-> {Poster(c) : c \in PostIds},
                   event |-> [c \in PostIds |-> {}],
                   destructor |-> NoDestructor, late |-> FALSE])

\* PostWorkerTask: event->setWorkerThreadPool(pool); return event.
setWorkerThreadPool(c) ==
    /\ posters[c] = "setWorkerThreadPool"
    /\ owners' = [owners EXCEPT !.pool = @ \cup {Waitable(c)}]
    /\ posters' = [posters EXCEPT ![c] = "returned"]
    /\ UNCHANGED <<queueHost, mTerminated, mMutex, mTaskQueue, mThreads, tasks,
                   waitables, history>>

\* owners after the thread of call c has dropped a reference.
Dropped(o, c) == [o EXCEPT !.late = @ \/ tasks[c] \notin {"queued", "running"}]

\* The posting thread drops the event PostWorkerTask returned.
DropEvent(c) ==
    /\ posters[c] = "returned"
    /\ Poster(c) \in owners.event[c]
    /\ owners' = Released(ReleaseEvent(Dropped(owners, c), c, Poster(c)), Poster(c))
    /\ UNCHANGED <<queueHost, mTerminated, mMutex, mTaskQueue, mThreads, tasks,
                   waitables, posters, history>>

\* The posting thread drops its reference to the pool.
DropPool(c) ==
    /\ posters[c] = "returned"
    /\ Poster(c) \in owners.pool
    /\ owners' = Released([Dropped(owners, c) EXCEPT !.pool = @ \ {Poster(c)}], Poster(c))
    /\ UNCHANGED <<queueHost, mTerminated, mMutex, mTaskQueue, mThreads, tasks,
                   waitables, posters, history>>

\* ~AsyncWorkerPool on the thread that released the last reference, the
\* block under the unique_lock: mTerminated = true.
LastOwnerSetTerminated ==
    /\ owners.destructor.pc = "lock"
    /\ mMutex = Unlocked
    /\ mTerminated' = TRUE
    /\ owners' = [owners EXCEPT !.destructor.pc = "notify_all"]
    /\ UNCHANGED <<queueHost, mMutex, mTaskQueue, mThreads, tasks, waitables,
                   posters, history>>

\* ~AsyncWorkerPool: mCondVar.notify_all().
LastOwnerNotifyAll ==
    /\ owners.destructor.pc = "notify_all"
    /\ \E woken \in notify_all(BlockedWorkers) : mThreads' = Wake(woken)
    /\ owners' = [owners EXCEPT !.destructor.pc = "join"]
    /\ UNCHANGED <<queueHost, mTerminated, mMutex, mTaskQueue, tasks, waitables,
                   posters, history>>

\* ~AsyncWorkerPool: thread.join() for every thread of mThreads, in order.
\* The joins of the other threads return once they have left threadLoop.  A
\* thread that joins itself either never returns or gets a
\* std::system_error, which ends the program when it leaves the destructor.
LastOwnerJoin ==
    /\ owners.destructor.pc = "join"
    /\ LET self == owners.destructor.thread
           others == {i \in WorkerIds : mThreads[i].pc /= "absent" /\ Worker(i) /= self}
       IN IF self \in {Worker(i) : i \in WorkerIds}
          THEN /\ \A i \in others : Worker(i)[2] < self[2] => mThreads[i].pc = "returned"
               /\ \E outcome \in {"deadlock", "std::terminate"} :
                     owners' = [owners EXCEPT !.destructor.pc = outcome]
          ELSE /\ \A i \in others : mThreads[i].pc = "returned"
               /\ owners' = [owners EXCEPT !.destructor.pc = "destroyed"]
    /\ UNCHANGED <<queueHost, mTerminated, mMutex, mTaskQueue, mThreads, tasks,
                   waitables, posters, history>>

NextOwner ==
    \/ \E c \in PostIds : postWorkerTaskLock(c)
    \/ \E c \in PostIds : postWorkerTaskPush(c)
    \/ \E c \in PostIds : postWorkerTaskNotify(c)
    \/ \E c \in PostIds : setWorkerThreadPool(c)
    \/ \E c \in PostIds : DropEvent(c)
    \/ \E c \in PostIds : DropPool(c)
    \/ \E i \in WorkerIds : threadLoopLock(i)
    \/ \E i \in WorkerIds : threadLoopPredicate(i)
    \/ \E i \in WorkerIds : threadLoopSpuriousWakeup(i)
    \/ \E i \in WorkerIds : threadLoopPop(i)
    \/ \E i \in WorkerIds : threadLoopClosure(i)
    \/ \E i \in WorkerIds : threadLoopMarkAsReady(i)
    \/ \E i \in WorkerIds : threadLoopEnd(i)
    \/ LastOwnerSetTerminated
    \/ LastOwnerNotifyAll
    \/ LastOwnerJoin

SpecOwner == InitOwner /\ [][NextOwner]_vars

\* C25: tasks posted through WorkerThreadPool::PostWorkerTask, every
\* posting thread dropping its references to the event and to the pool
\* while its task is queued or running: ~AsyncWorkerPool is never entered
\* by a worker thread of the pool, so no thread joins itself.
C25_DestructorOffWorkers ==
    ~owners.late =>
       /\ owners.destructor.thread \notin {Worker(i) : i \in WorkerIds}
       /\ owners.destructor.pc \notin {"deadlock", "std::terminate"}

\* Whenever the posting threads dropped their references that early, it is
\* a worker thread that enters ~AsyncWorkerPool.
DestructorOnWorker ==
    (~owners.late /\ owners.destructor.pc /= "none") =>
       owners.destructor.thread \in {Worker(i) : i \in WorkerIds}

\* The pool is destroyed by the thread that released the last reference
\* while no worker held an event: the destructor joined every worker.
PoolDestroyedByPoster ==
    /\ owners.destructor.pc = "destroyed"
    /\ owners.destructor.thread \in {Poster(c) : c \in PostIds}
    /\ \A c \in PostIds : waitables[c].mIsReady

====
